---- MODULE Spec2Model ----
(***************************************************************************)
(* A model of the VSI -> WireMock translation pipeline of vsi2wm:          *)
(*   parser.py (layout / protocol detector), ir_builder.py (IR builder),   *)
(*   helper_converter.py (template rewriter), ir.py (body-type inference), *)
(*   mapper.py (stub mapper) and core.py (VSIConverter.convert).           *)
(*                                                                         *)
(* Strings are sequences of symbols.  The characters the code looks at one *)
(* by one ("{", "}", "=", "<", ">", white space, ...) are symbols of their *)
(* own; a longer literal that the regular expressions of the rewriter only *)
(* ever match as a whole ("request_", "doRandomString(", ...) is a single  *)
(* symbol.  Two strings are equal iff their symbol sequences are equal.    *)
(***************************************************************************)
EXTENDS Integers, Sequences, FiniteSets, TLC

VARIABLES
    \* ---- body-type inference (ir.detect_body_type)
    content,            \* the string given to detect_body_type
    padded,             \* the same string with white space put around it
    typeOfContent,      \* result for content ("none" before the call)
    typeOfPadded,       \* result for padded  ("none" before the call)
    \* ---- template rewriter (one HelperConverter instance)
    text,               \* the string given to the rewriter
    segs,               \* the pieces text is made of: literal text and expressions
    converted,          \* result of convert_helpers (Nil before the call)
    detected,           \* result list of detect_unsupported_helpers (Nil before)
    unsupported_helpers,\* HelperConverter.unsupported_helpers
    hpc,                \* the last call made on the HelperConverter
    work,               \* the local text of a convert_helpers call that is under way
    passes,             \* the substitution passes that call has applied, in order
    \* ---- stub mapper (WireMockMapper.map_ir_to_stubs)
    ir,                 \* the IntermediateRepresentation given to the mapper
    ir0,                \* its value when the call began
    soap_match_strategy,\* WireMockMapper.soap_match_strategy
    stubs,              \* the local list stubs of map_ir_to_stubs
    mti,                \* index of the transaction the outer loop is at
    mk,                 \* index i + 1 of the inner loop over sorted_variants
    mpc,                \* "mapping", "returned" or "raised"
    \* ---- converter (core.VSIConverter on one source document)
    doc,                \* the source document: its element tree, and where it stops
                        \* being well-formed XML, if it does
    strict_mode,        \* the strict_mode argument given to VSIConverter (Nil: none)
    parse_result,       \* what parse_vsi_file returned (Nil before)
    builder,            \* the IRBuilder after build(): its ir and warnings (Nil before)
    report,             \* VSIConverter.report
    exit_code,          \* what convert() returned (Nil before)
    output,             \* what was written to the output directory
    stages,             \* which of parser, builder, mapper and writer have run
    cpc,                \* "new", "constructed", "type_error", "parsed" or "done"
    \* ---- the parser and the builder used on their own (VSIParser, IRBuilder)
    parser,             \* the VSIParser
    layout,             \* what detect_layout returned (Nil before)
    ppc,                \* which methods of the parser have been called
    bpc                 \* "new", "built", "mapped" or "raised"

bodyVars == <<content, padded, typeOfContent, typeOfPadded>>
rwVars   == <<text, segs, converted, detected, unsupported_helpers, hpc, work, passes>>
mapVars  == <<ir, ir0, soap_match_strategy, stubs, mti, mk, mpc>>
convVars == <<doc, strict_mode, parse_result, builder, report, exit_code, output, stages, cpc>>
unitVars == <<parser, layout, ppc, bpc>>
vars     == <<bodyVars, rwVars, mapVars, convVars, unitVars>>

notBodyVars == <<rwVars, mapVars, convVars, unitVars>>
notRwVars   == <<bodyVars, mapVars, convVars, unitVars>>
notMapVars  == <<bodyVars, rwVars, convVars, unitVars>>
notConvVars == <<bodyVars, rwVars, mapVars, unitVars>>

None == "none"

\* an optional value: absent, or present with value v
Nil == <<>>
Some(v) == <<v>>

(***************************************************************************)
(* Sequence helpers.                                                       *)
(***************************************************************************)
RECURSIVE Flatten(_)
Flatten(ss) == IF ss = <<>> THEN <<>> ELSE Head(ss) \o Flatten(Tail(ss))

Range(s) == {s[i] : i \in 1..Len(s)}

\* s[i..j] (empty when j < i)
Slice(s, i, j) == IF j < i THEN <<>> ELSE SubSeq(s, i, j)

\* the symbols of lit occur in s starting at index i
HasPrefixAt(s, i, lit) ==
    /\ i + Len(lit) - 1 <= Len(s)
    /\ \A n \in 1..Len(lit) : s[i + n - 1] = lit[n]

\* Python's  lit in s
Contains(s, lit) == \E i \in 1..Len(s) : HasPrefixAt(s, i, lit)

(***************************************************************************)
(* Character classes.                                                      *)
(***************************************************************************)
WhiteSpace == {" ", "\n"}
Digits     == {"1", "5", "10", "100"}

\* str.strip(): drop leading and trailing white space
RECURSIVE LStrip(_)
LStrip(s) == IF s # <<>> /\ Head(s) \in WhiteSpace THEN LStrip(Tail(s)) ELSE s

RECURSIVE RStrip(_)
RStrip(s) ==
    IF s # <<>> /\ s[Len(s)] \in WhiteSpace THEN RStrip(SubSeq(s, 1, Len(s) - 1)) ELSE s

Strip(s) == RStrip(LStrip(s))

StartsWith(s, c) == s # <<>> /\ s[1] = c
EndsWith(s, c)   == s # <<>> /\ s[Len(s)] = c

(***************************************************************************)
(* ir.detect_body_type                                                     *)
(***************************************************************************)
\* the same with "or" written for "and" in the two tests
detect_body_type_or(c) ==
    LET t == Strip(c) IN
    IF StartsWith(t, "{") \/ EndsWith(t, "}") THEN "json"
    ELSE IF StartsWith(t, "<") \/ EndsWith(t, ">") THEN "xml"
    ELSE "text"

detect_body_type(c) ==
    LET t == Strip(c) IN
    IF StartsWith(t, "{") /\ EndsWith(t, "}") THEN "json"
    ELSE IF StartsWith(t, "<") /\ EndsWith(t, ">") THEN "xml"
    ELSE "text"

(***************************************************************************)
(* Regular expressions of helper_converter.py, as sequences of elements:   *)
(*   lit   a literal symbol sequence                                       *)
(*   lazy  .*?      (any symbols but a line break, as few as possible)     *)
(*   plus  C+       (one or more symbols of class C, as many as possible)  *)
(*   star  C*       (zero or more symbols of class C, as many as possible) *)
(*   opt   C?       (one symbol of class C if there is one)                *)
(* matched with Python's backtracking order.                               *)
(***************************************************************************)
Lit(s)    == [t |-> "lit",  s |-> s,    c |-> "any"]
Lazy      == [t |-> "lazy", s |-> <<>>, c |-> "dot"]
Plus(cls) == [t |-> "plus", s |-> <<>>, c |-> cls]
Star(cls) == [t |-> "star", s |-> <<>>, c |-> cls]
Opt(cls)  == [t |-> "opt",  s |-> <<>>, c |-> cls]

InClass(sym, cls) ==
    CASE cls = "dot"      -> sym # "\n"
      [] cls = "digit"    -> sym \in Digits
      [] cls = "space"    -> sym \in WhiteSpace
      [] cls = "sign"     -> sym \in {"+", "-"}
      [] cls = "D"        -> sym = "D"
      [] cls = "notbrace" -> sym # "}"
      [] OTHER            -> TRUE

Open == <<"{", "{", "=">>
Close == <<"}", "}">>

\* helper_converter.py, HelperConverter.__init__
Pattern(name) ==
    CASE name = "date_delta_encoded" ->
           << Lit(Open \o <<"doDateDeltaFromCurrent(", "&quot;">>), Lazy,
              Lit(<<"&quot;", ",", "&quot;">>), Opt("sign"), Plus("digit"),
              Lit(<<"D", "&quot;", ")", ";">>), Lazy, Lit(Close) >>
      [] name = "date_delta_plain" ->
           << Lit(Open \o <<"doDateDeltaFromCurrent(", "\"">>), Lazy,
              Lit(<<"\"", ",", "\"">>), Opt("sign"), Plus("digit"), Opt("D"),
              Lit(<<"\"", ")">> \o Close) >>
      [] name = "xpath" ->
           << Lit(Open \o <<"request_">>), Lazy, Lit(<<";", "/*">>), Lazy,
              Lit(<<"*/">> \o Close) >>
      [] name = "simple_request" ->
           << Lit(Open \o <<"request_">>), Lazy, Lit(Close) >>
      [] name = "random_string" ->
           << Lit(Open \o <<"doRandomString(">>), Plus("digit"), Lit(<<")">> \o Close) >>
      [] name = "random_number" ->
           << Lit(Open \o <<"doRandomNumber(">>), Star("space"), Plus("digit"),
              Star("space"), Lit(<<",">>), Star("space"), Plus("digit"),
              Star("space"), Lit(<<")">> \o Close) >>
      [] name = "random_boolean" -> << Lit(Open \o <<"doRandomBoolean()">> \o Close) >>
      [] name = "random_email" -> << Lit(Open \o <<"doRandomEmail()">> \o Close) >>
      [] name = "random_ssn" -> << Lit(Open \o <<"doRandomSSN()">> \o Close) >>
      [] name = "random_credit_card" ->
           << Lit(Open \o <<"doRandomCreditCard()">> \o Close) >>
      [] name = "ca_lisa_helper" -> << Lit(Open), Plus("notbrace"), Lit(Close) >>

NoMatch == [ok |-> FALSE, ends |-> <<>>]
Matched(j, rest) == IF rest.ok THEN [ok |-> TRUE, ends |-> <<j>> \o rest.ends] ELSE NoMatch

\* number of consecutive symbols of class cls in s from index i on
RECURSIVE RunLen(_, _, _)
RunLen(s, i, cls) ==
    IF i <= Len(s) /\ InClass(s[i], cls) THEN 1 + RunLen(s, i + 1, cls) ELSE 0

RECURSIVE MatchFrom(_, _, _, _)
RECURSIVE TryLazy(_, _, _, _)
RECURSIVE TryGreedy(_, _, _, _, _)

\* Elements k.. of pat matched against s from index i: ends[n] is the index
\* after the n-th of them.
MatchFrom(pat, k, s, i) ==
    IF k > Len(pat) THEN [ok |-> TRUE, ends |-> <<>>]
    ELSE LET e == pat[k] IN
         CASE e.t = "lit"  -> IF HasPrefixAt(s, i, e.s)
                              THEN Matched(i + Len(e.s), MatchFrom(pat, k + 1, s, i + Len(e.s)))
                              ELSE NoMatch
           [] e.t = "lazy" -> TryLazy(pat, k, s, i)
           [] e.t = "plus" -> LET n == RunLen(s, i, e.c)
                              IN IF n = 0 THEN NoMatch ELSE TryGreedy(pat, k, s, i + n, i + 1)
           [] e.t = "star" -> TryGreedy(pat, k, s, i + RunLen(s, i, e.c), i)
           [] e.t = "opt"  -> TryGreedy(pat, k, s, i + (IF RunLen(s, i, e.c) > 0 THEN 1 ELSE 0), i)

\* element k is .*? and ends at j or later: shortest first
TryLazy(pat, k, s, j) ==
    LET rest == MatchFrom(pat, k + 1, s, j) IN
    IF rest.ok THEN Matched(j, rest)
    ELSE IF j <= Len(s) /\ InClass(s[j], "dot") THEN TryLazy(pat, k, s, j + 1)
    ELSE NoMatch

\* element k is greedy and ends at j or earlier, but not before lo: longest first
TryGreedy(pat, k, s, j, lo) ==
    LET rest == MatchFrom(pat, k + 1, s, j) IN
    IF rest.ok THEN Matched(j, rest)
    ELSE IF j > lo THEN TryGreedy(pat, k, s, j - 1, lo)
    ELSE NoMatch

\* every pattern begins with the literal {{=
MatchAt(name, s, i) ==
    IF HasPrefixAt(s, i, Open) THEN MatchFrom(Pattern(name), 1, s, i) ELSE NoMatch

\* re.search: is there a match anywhere in s
Search(name, s) == \E i \in 1..Len(s) : MatchAt(name, s, i).ok

\* the symbols element n of the pattern matched, for a match m starting at i
Group(s, i, m, n) == Slice(s, IF n = 1 THEN i ELSE m.ends[n - 1], m.ends[n] - 1)
GroupSpan(s, m, from, to) == Slice(s, m.ends[from - 1], m.ends[to] - 1)
MatchEnd(m) == m.ends[Len(m.ends)]

(***************************************************************************)
(* helper_converter.HelperConverter                                        *)
(***************************************************************************)
\* str.replace('_', '/') on one symbol
UnderscoreToSlash(sym) ==
    CASE sym = "request_" -> "request/"
      [] sym = "user_id"  -> "user/id"
      [] sym = "_"        -> "/"
      [] OTHER            -> sym

ReplaceUnderscores(s) == [n \in 1..Len(s) |-> UnderscoreToSlash(s[n])]

NowExpr(offset, fmt) ==
    <<"{", "{", "now offset='">> \o offset \o <<" days' format='">> \o fmt \o <<"'", "}", "}">>

\* convert_xpath and convert_simple_request
XPathExpr(path) ==
    <<"{", "{", "xPath request.body '//">> \o ReplaceUnderscores(path)
        \o <<"/text()'", "}", "}">>

SupportedPatterns ==
    << "date_delta_encoded", "date_delta_plain", "xpath", "simple_request",
       "random_string", "random_number", "random_boolean", "random_email",
       "random_ssn", "random_credit_card" >>

\* the is_supported test of detect_unsupported_helpers / replace_unsupported_helpers
IsSupported(helper_expr) ==
    \E n \in 1..Len(SupportedPatterns) : Search(SupportedPatterns[n], helper_expr)

\* what the substitution of one pattern puts in place of the match m of s at i
Replacement(name, s, i, m) ==
    CASE name = "date_delta_encoded" -> NowExpr(GroupSpan(s, m, 4, 5), Group(s, i, m, 2))
      [] name = "date_delta_plain" ->
           LET offset_str == GroupSpan(s, m, 4, 6)
           IN NowExpr(IF EndsWith(offset_str, "D")
                      THEN SubSeq(offset_str, 1, Len(offset_str) - 1)
                      ELSE offset_str,
                      Group(s, i, m, 2))
      [] name = "xpath" -> XPathExpr(Group(s, i, m, 2))
      [] name = "simple_request" -> XPathExpr(Group(s, i, m, 2))
      [] name = "random_string" ->
           <<"{", "{", "randomValue type='ALPHANUMERIC' length='">> \o Group(s, i, m, 2)
               \o <<"'", "}", "}">>
      [] name = "random_number" ->
           <<"{", "{", "randomInt lower=">> \o Group(s, i, m, 3) \o <<" upper=">>
               \o Group(s, i, m, 7) \o <<"}", "}">>
      [] name = "random_boolean" -> <<"{", "{", "pickRandom true false", "}", "}">>
      [] name = "random_email" -> <<"{", "{", "random 'Internet.safeEmailAddress'", "}", "}">>
      [] name = "random_ssn" -> <<"{", "{", "random 'IdNumber.ssnValid'", "}", "}">>
      [] name = "random_credit_card" ->
           <<"{", "{", "random 'Business.creditCardNumber'", "}", "}">>
      [] name = "ca_lisa_helper" ->
           LET helper_expr == Slice(s, i, MatchEnd(m) - 1)
           IN IF IsSupported(helper_expr) THEN helper_expr
              ELSE <<"[UNSUPPORTED: ">> \o Group(s, i, m, 2) \o <<"]">>

\* pattern.sub(replacement, s): leftmost matches, left to right, not overlapping
RECURSIVE SubFrom(_, _, _)
SubFrom(name, s, i) ==
    IF i > Len(s) THEN <<>>
    ELSE LET m == MatchAt(name, s, i) IN
         IF m.ok THEN Replacement(name, s, i, m) \o SubFrom(name, s, MatchEnd(m))
         ELSE <<s[i]>> \o SubFrom(name, s, i + 1)

Sub(name, s) == SubFrom(name, s, 1)

\* pattern.finditer(s): the matched texts, in order
RECURSIVE FindAllFrom(_, _, _)
FindAllFrom(name, s, i) ==
    IF i > Len(s) THEN <<>>
    ELSE LET m == MatchAt(name, s, i) IN
         IF m.ok THEN <<Slice(s, i, MatchEnd(m) - 1)>> \o FindAllFrom(name, s, MatchEnd(m))
         ELSE FindAllFrom(name, s, i + 1)

FindAll(name, s) == FindAllFrom(name, s, 1)

\* detect_unsupported_helpers: the list it returns
detect_unsupported_helpers(s) ==
    LET Unsupp(h) == ~IsSupported(h)
    IN SelectSeq(FindAll("ca_lisa_helper", s), Unsupp)

replace_unsupported_helpers(s) == Sub("ca_lisa_helper", s)

convert_date_delta(s) == Sub("date_delta_plain", Sub("date_delta_encoded", s))

convert_helpers(s) ==
    LET t0 == replace_unsupported_helpers(s)
        t1 == convert_date_delta(t0)
        t2 == Sub("xpath", t1)
        t3 == Sub("simple_request", t2)
        t4 == Sub("random_string", t3)
        t5 == Sub("random_number", t4)
        t6 == Sub("random_boolean", t5)
        t7 == Sub("random_email", t6)
        t8 == Sub("random_ssn", t7)
    IN Sub("random_credit_card", t8)

(***************************************************************************)
(* Specification SpecBody: detect_body_type called on a string and on the  *)
(* same string with white space around it.                                 *)
(***************************************************************************)
MaxBodyLen == 3

BodySymbols == {"{", "}", "<", ">", " ", "a"}
Pads == {<<>>, <<" ">>, <<"\n">>, <<" ", "\n">>}

RECURSIVE StringsUpTo(_, _)
StringsUpTo(alphabet, n) ==
    IF n = 0 THEN {<<>>}
    ELSE LET shorter == StringsUpTo(alphabet, n - 1)
         IN shorter \cup {<<a>> \o t : a \in alphabet, t \in {u \in shorter : Len(u) = n - 1}}

RwIdle ==
    /\ text = <<>> /\ segs = <<>> /\ converted = Nil /\ detected = Nil
    /\ unsupported_helpers = {} /\ hpc = "idle" /\ work = <<>> /\ passes = <<>>

BodyIdle ==
    /\ content = <<>> /\ padded = <<>> /\ typeOfContent = None /\ typeOfPadded = None

EmptyIR == [protocol |-> "HTTP", transactions |-> <<>>]

MapIdle ==
    /\ ir = EmptyIR /\ ir0 = EmptyIR /\ soap_match_strategy = "both"
    /\ stubs = <<>> /\ mti = 0 /\ mk = 0 /\ mpc = "idle"

\* ConversionReport.__init__
NewReport ==
    [source_version |-> Nil, build_number |-> Nil, transactions_count |-> 0,
     variants_count |-> 0, stubs_generated |-> 0, warnings |-> <<>>, notes |-> <<>>]

NoOutput == [report |-> Nil, mappings |-> <<>>]

EmptyDoc ==
    [version |-> Nil, build |-> Nil, protocol |-> Nil, transactions |-> <<>>,
     malformed_at |-> Nil]

ConvIdle ==
    /\ doc = EmptyDoc /\ strict_mode = Nil /\ parse_result = Nil /\ builder = Nil
    /\ report = NewReport /\ exit_code = Nil /\ output = NoOutput /\ stages = {}
    /\ cpc = "idle"

\* VSIParser.__init__
NewParser ==
    [layout |-> "unknown", source_version |-> Nil, build_number |-> Nil, protocol |-> Nil,
     transactions_count |-> 0, warnings |-> <<>>]

UnitIdle ==
    /\ parser = NewParser /\ layout = Nil /\ ppc = {} /\ bpc = "idle"

InitBody ==
    /\ content \in StringsUpTo(BodySymbols, MaxBodyLen)
    /\ \E l \in Pads, r \in Pads : padded = l \o content \o r
    /\ typeOfContent = None
    /\ typeOfPadded = None
    /\ RwIdle
    /\ MapIdle
    /\ ConvIdle
    /\ UnitIdle

DetectContent ==
    /\ typeOfContent = None
    /\ typeOfContent' = detect_body_type(content)
    /\ UNCHANGED <<content, padded, typeOfPadded, notBodyVars>>

DetectPadded ==
    /\ typeOfPadded = None
    /\ typeOfPadded' = detect_body_type(padded)
    /\ UNCHANGED <<content, padded, typeOfContent, notBodyVars>>

NextBody == DetectContent \/ DetectPadded

SpecBody == InitBody /\ [][NextBody]_vars

(***************************************************************************)
(* Specification SpecRewrite: one HelperConverter and the calls made on it *)
(* for a string put together from literal text and {{=...}} expressions.   *)
(***************************************************************************)
MaxSegs == 2

Expr(inner) == Open \o inner \o Close

\* the pieces the strings given to the rewriter are made of
Segment(name) ==
    CASE name = "lit"           -> <<"x">>
      [] name = "space"         -> <<" ">>
      [] name = "random_string" -> Expr(<<"doRandomString(", "10", ")">>)
      [] name = "random_number" -> Expr(<<"doRandomNumber(", "1", ",", " ", "100", ")">>)
      [] name = "random_boolean" -> Expr(<<"doRandomBoolean()">>)
      [] name = "random_email"  -> Expr(<<"doRandomEmail()">>)
      [] name = "random_ssn"    -> Expr(<<"doRandomSSN()">>)
      [] name = "random_credit_card" -> Expr(<<"doRandomCreditCard()">>)
      [] name = "date_plain"    ->
           Expr(<<"doDateDeltaFromCurrent(", "\"", "yyyy-MM-dd", "\"", ",", "\"", "+", "1",
                  "D", "\"", ")">>)
      [] name = "date_encoded"  ->
           Expr(<<"doDateDeltaFromCurrent(", "&quot;", "yyyy-MM-dd", "&quot;", ",", "&quot;",
                  "-", "5", "D", "&quot;", ")", ";">>)
      [] name = "date_plain_semicolon" ->
           Expr(<<"doDateDeltaFromCurrent(", "\"", "yyyy-MM-dd", "\"", ",", "\"", "+", "1",
                  "D", "\"", ")", ";">>)
      [] name = "request"       -> Expr(<<"request_", "user_id">>)
      [] name = "request_comment" -> Expr(<<"request_", "a", ";", "/*", "c", "*/">>)
      [] name = "unknown"       -> Expr(<<"doUnknownHelper()">>)
      [] name = "bad_arg"       -> Expr(<<"doRandomString(", "abc", ")">>)

LiteralSegments == {"lit", "space"}
RecognizedSegments ==
    {"random_string", "random_number", "random_boolean", "random_email", "random_ssn",
     "random_credit_card", "date_plain", "date_encoded", "date_plain_semicolon", "request",
     "request_comment"}
UnsupportedSegments == {"unknown", "bad_arg"}
SegmentNames == LiteralSegments \cup RecognizedSegments \cup UnsupportedSegments

TextOf(names) == Flatten([n \in 1..Len(names) |-> Segment(names[n])])

InitRewrite ==
    /\ segs \in StringsUpTo(SegmentNames, MaxSegs)
    /\ text = TextOf(segs)
    /\ converted = Nil
    /\ detected = Nil
    /\ unsupported_helpers = {}
    /\ hpc = "new"
    /\ work = <<>>
    /\ passes = <<>>
    /\ BodyIdle
    /\ MapIdle
    /\ ConvIdle
    /\ UnitIdle

\* detect_unsupported_helpers(text)
DetectUnsupported ==
    /\ detected' = Some(detect_unsupported_helpers(text))
    /\ unsupported_helpers' = unsupported_helpers \cup Range(detected'[1])
    /\ hpc' = "detect"
    /\ UNCHANGED <<text, segs, converted, work, passes, notRwVars>>

\* convert_helpers(text)
ConvertHelpers ==
    /\ converted' = Some(convert_helpers(text))
    /\ hpc' = "convert"
    /\ UNCHANGED <<text, segs, detected, unsupported_helpers, work, passes, notRwVars>>

\* convert_request_body / convert_response_body / one value of convert_headers
ConvertBody ==
    /\ IF text # <<>>
       THEN /\ detected' = Some(detect_unsupported_helpers(text))
            /\ unsupported_helpers' = unsupported_helpers \cup Range(detected'[1])
            /\ converted' = Some(convert_helpers(text))
       ELSE UNCHANGED <<detected, unsupported_helpers, converted>>
    /\ hpc' = "body"
    /\ UNCHANGED <<text, segs, work, passes, notRwVars>>

\* clear_unsupported_helpers()
ClearUnsupported ==
    /\ unsupported_helpers' = {}
    /\ hpc' = "clear"
    /\ UNCHANGED <<text, segs, converted, detected, work, passes, notRwVars>>

NextRewrite == DetectUnsupported \/ ConvertHelpers \/ ConvertBody \/ ClearUnsupported

SpecRewrite == InitRewrite /\ [][NextRewrite]_vars

(***************************************************************************)
(* Specification SpecPasses: one convert_helpers call, one substitution    *)
(* pass over the whole text at a time.                                     *)
(***************************************************************************)
\* the passes of convert_helpers, in the order of its statements
ConvertHelpersPasses ==
    << "replace_unsupported_helpers", "convert_date_delta", "xpath", "simple_request",
       "random_string", "random_number", "random_boolean", "random_email", "random_ssn",
       "random_credit_card" >>

\* text = <pass>(text)
ApplyPassTo(name, s) ==
    CASE name = "replace_unsupported_helpers" -> replace_unsupported_helpers(s)
      [] name = "convert_date_delta"          -> convert_date_delta(s)
      [] OTHER                                -> Sub(name, s)

\* convert_helpers(text) is called: an empty text is returned at once
CallConvertHelpers ==
    /\ hpc = "new"
    /\ IF text = <<>>
       THEN /\ converted' = Some(text)
            /\ hpc' = "returned"
            /\ UNCHANGED work
       ELSE /\ work' = text
            /\ hpc' = "converting"
            /\ UNCHANGED converted
    /\ UNCHANGED <<text, segs, detected, unsupported_helpers, passes, notRwVars>>

\* the next statement  text = ...(text)  of convert_helpers
ApplyPass ==
    /\ hpc = "converting"
    /\ Len(passes) < Len(ConvertHelpersPasses)
    /\ LET name == ConvertHelpersPasses[Len(passes) + 1]
       IN /\ work' = ApplyPassTo(name, work)
          /\ passes' = Append(passes, name)
    /\ UNCHANGED <<text, segs, converted, detected, unsupported_helpers, hpc, notRwVars>>

\* return text
ReturnConverted ==
    /\ hpc = "converting"
    /\ Len(passes) = Len(ConvertHelpersPasses)
    /\ converted' = Some(work)
    /\ hpc' = "returned"
    /\ UNCHANGED <<text, segs, detected, unsupported_helpers, work, passes, notRwVars>>

NextPasses == CallConvertHelpers \/ ApplyPass \/ ReturnConverted

SpecPasses == InitRewrite /\ [][NextPasses]_vars

(***************************************************************************)
(* mapper.WireMockMapper                                                   *)
(***************************************************************************)
\* a Python dict as a function; d[k] = v on it
EmptyDict == <<>>
DictSet(d, k, v) == [n \in DOMAIN d \cup {k} |-> IF n = k THEN v ELSE d[n]]

\* json.loads on the symbols of a JSON text: an object of members "key":value
\* separated by commas, white space allowed between them; anything else raises
JsonMemberSymbols == {"\"a\":1", "\"b\":\"x\""}
JsonKey(sym) == IF sym = "\"a\":1" THEN "a" ELSE "b"
JsonValue(sym) == IF sym = "\"a\":1" THEN "1" ELSE "'x'"

JsonLoads(c) ==
    LET NotSpace(sym) == sym \notin WhiteSpace
        t == SelectSeq(c, NotSpace)
        n == Len(t)
        ok == /\ n >= 2 /\ t[1] = "{" /\ t[n] = "}"
              /\ \/ n = 2
                 \/ /\ n % 2 = 1
                    /\ \A k \in 2..(n - 1) :
                          IF k % 2 = 0 THEN t[k] \in JsonMemberSymbols ELSE t[k] = ","
        members == {k \in 2..(n - 1) : k % 2 = 0}
        keys == {JsonKey(t[k]) : k \in members}
        Last(key) == CHOOSE k \in members :
                        /\ JsonKey(t[k]) = key
                        /\ \A j \in members : JsonKey(t[j]) = key => j <= k
    IN [ok |-> ok,
        value |-> IF ok THEN [key \in keys |-> JsonValue(t[Last(key)])] ELSE EmptyDict]

\* "{{" in content and "}}" in content
HasTemplateMarkers(c) == Contains(c, <<"{", "{">>) /\ Contains(c, <<"}", "}">>)

\* an insertion that puts a variant before the variants of equal weight
InsertBeforeEqual(acc, i, vs) ==
    LET p == Cardinality({n \in 1..Len(acc) : vs[acc[n]].weight > vs[i].weight})
    IN SubSeq(acc, 1, p) \o <<i>> \o SubSeq(acc, p + 1, Len(acc))

\* sorted(variants, key=weight, reverse=True), as the source positions of the
\* variants, built by insertion: a stable sort, so a variant goes after the
\* variants of equal weight that come before it in the source
InsertByWeight(acc, i, vs) ==
    LET p == Cardinality({n \in 1..Len(acc) : vs[acc[n]].weight >= vs[i].weight})
    IN SubSeq(acc, 1, p) \o <<i>> \o SubSeq(acc, p + 1, Len(acc))

RECURSIVE SortedUpTo(_, _)
SortedUpTo(vs, n) == IF n = 0 THEN <<>> ELSE InsertByWeight(SortedUpTo(vs, n - 1), n, vs)

sorted_variants(vs) == SortedUpTo(vs, Len(vs))

\* the truth value of an optional string: None and "" are false
Truthy(x) == x # Nil /\ x[1] # ""

\* _build_request_match with the exact path always emitted, also beside a pattern
build_request_match_always_path(request, strategy) ==
    LET EqualTo(d) == [n \in DOMAIN d |-> [equalTo |-> d[n]]]
        headers0 == IF request.headers # EmptyDict THEN Some(EqualTo(request.headers)) ELSE Nil
        headers1 ==
            IF request.soap_action # Nil /\ strategy \in {"soapAction", "both"}
            THEN Some(DictSet(IF headers0 = Nil THEN EmptyDict ELSE headers0[1],
                              "SOAPAction", [equalTo |-> request.soap_action[1]]))
            ELSE headers0
        bodyPatterns ==
            IF request.body = Nil THEN Nil
            ELSE LET body == request.body[1] IN
                 IF body.type = "json"
                 THEN Some(<<[kind |-> "equalToJson", value |-> body.content,
                              ignoreArrayOrder |-> TRUE, ignoreExtraElements |-> TRUE]>>)
                 ELSE IF body.type = "xml"
                 THEN Some(<<[kind |-> "equalToXml", value |-> body.content,
                              ignoreArrayOrder |-> FALSE, ignoreExtraElements |-> FALSE]>>)
                 ELSE Some(<<[kind |-> "equalTo", value |-> body.content,
                              ignoreArrayOrder |-> FALSE, ignoreExtraElements |-> FALSE]>>)
    IN [method |-> request.method,
        urlPathPattern |-> IF Truthy(request.path_template) THEN request.path_template ELSE Nil,
        urlPath |-> Some(request.path),
        headers |-> headers1,
        queryParameters |-> IF request.query # EmptyDict THEN Some(EqualTo(request.query)) ELSE Nil,
        bodyPatterns |-> bodyPatterns]

\* _build_request_match
build_request_match(request, strategy) ==
    LET EqualTo(d) == [n \in DOMAIN d |-> [equalTo |-> d[n]]]
        headers0 == IF request.headers # EmptyDict THEN Some(EqualTo(request.headers)) ELSE Nil
        headers1 ==
            IF request.soap_action # Nil /\ strategy \in {"soapAction", "both"}
            THEN Some(DictSet(IF headers0 = Nil THEN EmptyDict ELSE headers0[1],
                              "SOAPAction", [equalTo |-> request.soap_action[1]]))
            ELSE headers0
        bodyPatterns ==
            IF request.body = Nil THEN Nil
            ELSE LET body == request.body[1] IN
                 IF body.type = "json"
                 THEN Some(<<[kind |-> "equalToJson", value |-> body.content,
                              ignoreArrayOrder |-> TRUE, ignoreExtraElements |-> TRUE]>>)
                 ELSE IF body.type = "xml"
                 THEN Some(<<[kind |-> "equalToXml", value |-> body.content,
                              ignoreArrayOrder |-> FALSE, ignoreExtraElements |-> FALSE]>>)
                 ELSE Some(<<[kind |-> "equalTo", value |-> body.content,
                              ignoreArrayOrder |-> FALSE, ignoreExtraElements |-> FALSE]>>)
    IN [method |-> request.method,
        urlPathPattern |-> IF Truthy(request.path_template) THEN request.path_template ELSE Nil,
        urlPath |-> IF Truthy(request.path_template) THEN Nil ELSE Some(request.path),
        headers |-> headers1,
        queryParameters |-> IF request.query # EmptyDict THEN Some(EqualTo(request.query)) ELSE Nil,
        bodyPatterns |-> bodyPatterns]

\* _build_response without the test for template markers: every json body
\* is emitted as a string
build_response_all_templated(variant) ==
    LET aliased == variant.headers # EmptyDict
        isJson == variant.body # Nil /\ variant.body[1].type = "json"
        templated == isJson
        parsed == IF isJson /\ ~templated
                  THEN JsonLoads(variant.body[1].content)
                  ELSE [ok |-> TRUE, value |-> EmptyDict]
        headers == IF templated
                   THEN DictSet(variant.headers, "Content-Type", "application/json")
                   ELSE variant.headers
        latency == variant.latency
    IN [raised |-> ~parsed.ok,
        variant_headers |-> IF aliased THEN headers ELSE variant.headers,
        response |->
           [status |-> variant.status,
            headers |-> headers,
            body |-> IF variant.body = Nil \/ (isJson /\ ~templated) THEN Nil
                     ELSE Some(variant.body[1].content),
            jsonBody |-> IF isJson /\ ~templated THEN Some(parsed.value) ELSE Nil,
            delayDistribution |->
                IF latency # Nil /\ latency[1].mode = "range"
                THEN Some([type |-> "uniform", lower |-> latency[1].min_ms,
                           upper |-> latency[1].max_ms])
                ELSE Nil,
            fixedDelayMilliseconds |->
                IF latency # Nil /\ latency[1].mode = "fixed"
                THEN Some(latency[1].fixed_ms) ELSE Nil,
            transformers |-> <<"response-template">>]]

\* _build_response: the response, what it leaves in variant.headers (the
\* response's header dict IS the variant's when that one is not empty), and
\* whether json.loads raised
build_response(variant) ==
    LET aliased == variant.headers # EmptyDict
        isJson == variant.body # Nil /\ variant.body[1].type = "json"
        templated == isJson /\ HasTemplateMarkers(variant.body[1].content)
        parsed == IF isJson /\ ~templated
                  THEN JsonLoads(variant.body[1].content)
                  ELSE [ok |-> TRUE, value |-> EmptyDict]
        headers == IF templated
                   THEN DictSet(variant.headers, "Content-Type", "application/json")
                   ELSE variant.headers
        latency == variant.latency
    IN [raised |-> ~parsed.ok,
        variant_headers |-> IF aliased THEN headers ELSE variant.headers,
        response |->
           [status |-> variant.status,
            headers |-> headers,
            body |-> IF variant.body = Nil \/ (isJson /\ ~templated) THEN Nil
                     ELSE Some(variant.body[1].content),
            jsonBody |-> IF isJson /\ ~templated THEN Some(parsed.value) ELSE Nil,
            delayDistribution |->
                IF latency # Nil /\ latency[1].mode = "range"
                THEN Some([type |-> "uniform", lower |-> latency[1].min_ms,
                           upper |-> latency[1].max_ms])
                ELSE Nil,
            fixedDelayMilliseconds |->
                IF latency # Nil /\ latency[1].mode = "fixed"
                THEN Some(latency[1].fixed_ms) ELSE Nil,
            transformers |-> <<"response-template">>]]

\* _create_stub with the selection logic only on the stub of the first variant
create_stub_first_only(transaction, variant, priority, strategy, txIndex, variantIndex) ==
    [priority |-> priority,
     request |-> build_request_match(transaction.request, strategy),
     response |-> build_response(variant).response,
     metadata |->
        [devtest_transaction_id |-> transaction.id,
         devtest_variant_weight |-> variant.weight,
         devtest_selection_logic |->
            IF transaction.selection_logic # Nil /\ transaction.selection_logic[1] # <<>>
               /\ variantIndex = 1
            THEN transaction.selection_logic ELSE Nil],
     tx |-> txIndex,
     variant |-> variantIndex]

\* _create_stub; tx and variant say which variant of the IR the stub was made from
create_stub(transaction, variant, priority, strategy, txIndex, variantIndex) ==
    [priority |-> priority,
     request |-> build_request_match(transaction.request, strategy),
     response |-> build_response(variant).response,
     metadata |->
        [devtest_transaction_id |-> transaction.id,
         devtest_variant_weight |-> variant.weight,
         devtest_selection_logic |->
            IF transaction.selection_logic # Nil /\ transaction.selection_logic[1] # <<>>
            THEN transaction.selection_logic ELSE Nil],
     tx |-> txIndex,
     variant |-> variantIndex]

(***************************************************************************)
(* Specification SpecMap: map_ir_to_stubs on an IR, one pass of the inner  *)
(* loop at a time.                                                         *)
(***************************************************************************)
MaxTx == 2
MaxVariants == 3
MaxSoapVariants == 2

NoLatency == Nil
JsonPlain    == <<"{", "\"a\":1", ",", " ", "\"b\":\"x\"", "}">>
JsonTemplate == <<"{", "\"id\":", "{", "{", "randomInt lower=", "1", " upper=", "100",
                  "}", "}", "}">>
JsonInvalid  == <<"{", "x", "}">>
XmlTemplate  == <<"<", "a", ">", "{", "{", "pickRandom true false", "}", "}", "<", "/a", ">">>

Variant(weight, headers, body, latency) ==
    [status |-> 200, headers |-> headers, body |-> body, latency |-> latency,
     weight |-> weight]

Body(type, c) == Some([type |-> type, content |-> c])

\* the response variants the IRs given to the mapper are made of
VariantKind(name) ==
    CASE name = "bare"          -> Variant(5, EmptyDict, Nil, NoLatency)
      [] name = "json"          -> Variant(5, EmptyDict, Body("json", JsonPlain), NoLatency)
      [] name = "json_template" -> Variant(9, EmptyDict, Body("json", JsonTemplate), NoLatency)
      [] name = "json_template_typed" ->
           Variant(5, [n \in {"Content-Type"} |-> "text/plain"], Body("json", JsonTemplate),
                   NoLatency)
      [] name = "json_invalid"  -> Variant(9, EmptyDict, Body("json", JsonInvalid), NoLatency)
      [] name = "xml_template"  ->
           Variant(9, [n \in {"X-Id"} |-> "1"], Body("xml", XmlTemplate),
                   Some([mode |-> "range", min_ms |-> 40, max_ms |-> 120, fixed_ms |-> 0]))
      [] name = "text"          ->
           Variant(7, EmptyDict, Body("text", <<"x">>),
                   Some([mode |-> "fixed", min_ms |-> 0, max_ms |-> 0, fixed_ms |-> 100]))

VariantKinds ==
    {"bare", "json", "json_template", "json_template_typed", "json_invalid", "xml_template",
     "text"}

DefaultRequest ==
    [method |-> "GET", path |-> "/x", path_template |-> Nil, soap_action |-> Nil,
     operation |-> Nil, headers |-> EmptyDict, query |-> EmptyDict, body |-> Nil]

TxIds == <<"t1", "t2", "t3", "t4">>

\* lists of at most nTx lists of variant kinds, of at most budget kinds in all
RECURSIVE Shapes(_, _)
Shapes(nTx, budget) ==
    IF nTx = 0 THEN {<<>>}
    ELSE {<<>>} \cup
         UNION {{<<ks>> \o rest : rest \in Shapes(nTx - 1, budget - Len(ks))}
                : ks \in StringsUpTo(VariantKinds, budget)}

IROf(shape) ==
    [protocol |-> "HTTP",
     transactions |->
        [t \in 1..Len(shape) |->
            [id |-> TxIds[t],
             request |-> DefaultRequest,
             response_variants |-> [v \in 1..Len(shape[t]) |-> VariantKind(shape[t][v])],
             selection_logic |-> Nil]]]

\* requests with a SOAP action, without and with a header of their own
SoapRequests ==
    {[DefaultRequest EXCEPT !.method = "POST", !.soap_action = Some("urn:GetUser")],
     [DefaultRequest EXCEPT !.method = "POST", !.soap_action = Some("urn:GetUser"),
                            !.headers = [n \in {"X-Id"} |-> "1"]]}

\* requests with a path template, with an empty one, and with a query
TemplateRequests ==
    {[DefaultRequest EXCEPT !.path_template = Some("/users/{id}")],
     [DefaultRequest EXCEPT !.path = "/users/1", !.path_template = Some("/users/[0-9]+"),
                            !.query = [n \in {"q"} |-> "1"]],
     [DefaultRequest EXCEPT !.path_template = Some("")]}

\* the values of --soap-match
SoapMatchStrategies == {"soapAction", "xpath", "both"}

\* the same IR with request as the request of its transactions
WithRequest(i, request) ==
    [i EXCEPT !.transactions = [t \in 1..Len(i.transactions) |->
                                   [i.transactions[t] EXCEPT !.request = request]]]

\* WireMockMapper(soap_match_strategy=...).map_ir_to_stubs(ir)
InitMap ==
    /\ \/ /\ \E shape \in Shapes(MaxTx, MaxVariants) : ir = IROf(shape)
          /\ soap_match_strategy = "both"
       \/ /\ \E shape \in Shapes(1, MaxSoapVariants) \ {<<>>}, request \in SoapRequests :
                ir = WithRequest(IROf(shape), request)
          /\ soap_match_strategy \in SoapMatchStrategies
       \/ /\ \E shape \in Shapes(1, MaxSoapVariants) \ {<<>>}, request \in TemplateRequests :
                ir = WithRequest(IROf(shape), request)
          /\ soap_match_strategy = "both"
    /\ ir0 = ir
    /\ stubs = <<>>
    /\ mti = 1
    /\ mk = 1
    /\ mpc = "mapping"
    /\ BodyIdle
    /\ RwIdle
    /\ ConvIdle
    /\ UnitIdle

\* one pass of:  for i, variant in enumerate(sorted_variants): stubs.append(...)
CreateStub ==
    /\ mpc = "mapping"
    /\ mti <= Len(ir.transactions)
    /\ mk <= Len(ir.transactions[mti].response_variants)
    /\ LET transaction == ir.transactions[mti]
           vi == sorted_variants(transaction.response_variants)[mk]
           variant == transaction.response_variants[vi]
           built == build_response(variant)
       IN /\ ir' = [ir EXCEPT !.transactions[mti].response_variants[vi].headers =
                                   built.variant_headers]
          /\ IF built.raised
             THEN /\ mpc' = "raised"
                  /\ UNCHANGED <<stubs, mk>>
             ELSE /\ stubs' = Append(stubs, create_stub(transaction, variant, mk - 1,
                                                        soap_match_strategy, mti, vi))
                  /\ mk' = mk + 1
                  /\ UNCHANGED mpc
    /\ UNCHANGED <<ir0, soap_match_strategy, mti, notMapVars>>

\* the inner loop is over: on to the next transaction
NextTransaction ==
    /\ mpc = "mapping"
    /\ mti <= Len(ir.transactions)
    /\ mk > Len(ir.transactions[mti].response_variants)
    /\ mti' = mti + 1
    /\ mk' = 1
    /\ UNCHANGED <<ir, ir0, soap_match_strategy, stubs, mpc, notMapVars>>

\* return stubs
ReturnStubs ==
    /\ mpc = "mapping"
    /\ mti > Len(ir.transactions)
    /\ mpc' = "returned"
    /\ UNCHANGED <<ir, ir0, soap_match_strategy, stubs, mti, mk, notMapVars>>

NextMap == CreateStub \/ NextTransaction \/ ReturnStubs

SpecMap == InitMap /\ [][NextMap]_vars

(***************************************************************************)
(* The source document.  A document is the element tree the XML parser     *)
(* hands out (texts are the texts of the elements, entities resolved):     *)
(*   <serviceImage version build> [<protocol>] <t>* </serviceImage>        *)
(*   <t id> [<rq>] <rp>* </t>                                              *)
(* The child elements of the root are its items, in document order.        *)
(* malformed_at = Some(k) says that the text stops being well-formed XML   *)
(* after the k-th item (after the start tag of the root for k = 0, before  *)
(* it for k = -1); an incremental parse hands out the events of what comes *)
(* before that point and then raises.                                      *)
(***************************************************************************)
Msg(m, arg) == [msg |-> m, arg |-> arg]

\* the text of the exception xml.etree raises
ParseError == <<"not well-formed">>

NProtocolItems(d) == IF d.protocol = Nil THEN 0 ELSE 1
ItemOfTx(d, t) == NProtocolItems(d) + t

Malformed(d) == d.malformed_at # Nil
RootSeen(d) == ~Malformed(d) \/ d.malformed_at[1] >= 0
SeenItem(d, i) == ~Malformed(d) \/ i <= d.malformed_at[1]

\* a <bd> element somewhere below the <t>
HasBd(t) == \/ t.rq # Nil /\ t.rq[1].bd # Nil
            \/ \E r \in 1..Len(t.rps) : t.rps[r].bd # Nil

\* the first layout marker below the <t> in document order: data says where
\* the <t> has a <reqData> or <rspData> child ("none", "first": before its
\* <rq>, "last": after its <rp>s)
FirstMarker(t) ==
    IF t.data = "first" THEN "rr"
    ELSE IF HasBd(t) THEN "bd"
    ELSE IF t.data = "last" THEN "rr"
    ELSE None

(***************************************************************************)
(* parser.VSIParser                                                        *)
(***************************************************************************)
\* detect_layout that takes every layout marker for a <bd>
detect_layout_bd_only(p, d) ==
    LET seen == {t \in 1..Len(d.transactions) : SeenItem(d, ItemOfTx(d, t))}
        marked == {t \in seen : FirstMarker(d.transactions[t]) # None}
        first == CHOOSE t \in marked : \A u \in marked : t <= u
        counted == IF marked # {} THEN first ELSE Cardinality(seen)
        failed == marked = {} /\ Malformed(d)
    IN [p EXCEPT !.layout = IF marked # {} /\ FirstMarker(d.transactions[first]) = "rr" /\ FALSE
                            THEN "rr_pairs" ELSE "model_based",
                 !.transactions_count = @ + counted,
                 !.warnings = IF failed THEN Append(@, Msg("Layout detection failed", ParseError))
                              ELSE @]

\* detect_layout: <t> start tags are counted up to the first <bd>, <reqData>
\* or <rspData>, which ends the loop
detect_layout(p, d) ==
    LET seen == {t \in 1..Len(d.transactions) : SeenItem(d, ItemOfTx(d, t))}
        marked == {t \in seen : FirstMarker(d.transactions[t]) # None}
        first == CHOOSE t \in marked : \A u \in marked : t <= u
        counted == IF marked # {} THEN first ELSE Cardinality(seen)
        failed == marked = {} /\ Malformed(d)
    IN [p EXCEPT !.layout = IF marked # {} /\ FirstMarker(d.transactions[first]) = "rr"
                            THEN "rr_pairs" ELSE "model_based",
                 !.transactions_count = @ + counted,
                 !.warnings = IF failed THEN Append(@, Msg("Layout detection failed", ParseError))
                              ELSE @]

\* extract_metadata
extract_metadata(p, d) ==
    IF RootSeen(d)
    THEN [p EXCEPT !.source_version = d.version, !.build_number = d.build]
    ELSE [p EXCEPT !.warnings = Append(@, Msg("Metadata extraction failed", ParseError))]

\* detect_protocol: the text of the first <protocol> element (None for an
\* element without text)
detect_protocol(p, d) ==
    IF d.protocol # Nil /\ SeenItem(d, 1)
    THEN [p EXCEPT !.protocol = IF d.protocol[1] = "" THEN Nil ELSE d.protocol]
    ELSE IF Malformed(d)
    THEN [p EXCEPT !.warnings = Append(@, Msg("Protocol detection failed", ParseError))]
    ELSE p

\* str.lower() on the protocol values of the model
Lower(s) ==
    CASE s = "HTTPS"  -> "https"
      [] s = "Http/S" -> "http/s"
      [] OTHER        -> s

\* the same list with "mq" in it
HttpProtocolsAndMq == {"http", "https", "http/s", "mq"}

HttpProtocols == {"http", "https", "http/s"}

\* is_http_protocol: the parser after the call, and the value returned
is_http_protocol(p, d) ==
    LET q == detect_protocol(p, d)
        is_http == q.protocol = Nil \/ Lower(q.protocol[1]) \in HttpProtocols
    IN [parser |-> IF is_http THEN q
                   ELSE [q EXCEPT !.warnings =
                            Append(@, Msg("Skipping non-HTTP protocol", q.protocol))],
        is_http |-> is_http]

\* parse: the dict it returns (its warnings entry is the parser's list)
parse(p, d) ==
    LET p1 == detect_layout(p, d)
        p2 == extract_metadata(p1, d)
        p3 == detect_protocol(p2, d)
        r  == is_http_protocol(p3, d)
    IN [layout |-> p1.layout,
        metadata |-> [source_version |-> p2.source_version, build_number |-> p2.build_number],
        protocol |-> p3.protocol,
        is_http |-> r.is_http,
        transactions_count |-> r.parser.transactions_count,
        warnings |-> r.parser.warnings]

\* parse_vsi_file
parse_vsi_file(d) == parse(NewParser, d)

(***************************************************************************)
(* ir_builder.IRBuilder                                                    *)
(* An element is a record of its children; a child that may be missing is  *)
(* Nil or Some(its text) ("" or <<>>: no text).  An Element is false in a   *)
(* condition when it has no children.                                      *)
(***************************************************************************)
\* an <m> element without children
NoM == [method |-> Nil, path |-> Nil, pathTemplate |-> Nil, soapAction |-> Nil,
        operation |-> Nil, status |-> Nil, matchScript |-> Nil, latency |-> Nil,
        weight |-> Nil]

Present(children) == \E n \in 1..Len(children) : children[n] # Nil

\* bool(m_elem), bool(headers_elem), bool(request_elem)
TruthyM(m) == m # Nil /\ Present(<<m[1].method, m[1].path, m[1].pathTemplate, m[1].soapAction,
                                   m[1].operation, m[1].status, m[1].matchScript,
                                   m[1].latency, m[1].weight>>)
TruthyDict(e) == e # Nil /\ e[1] # EmptyDict
TruthyRq(rq) == rq # Nil /\ (\/ rq[1].other
                             \/ Present(<<rq[1].m, rq[1].headers, rq[1].query, rq[1].bd>>))

\* list(self.unsupported_helpers): the elements of the set in the order the
\* set gives them, which is the order of hash_order
ListOf(S, hash_order) == LET In(x) == x \in S IN SelectSeq(hash_order, In)

Orderings(S) == {o \in [1..Cardinality(S) -> S] : Range(o) = S}

UnsupportedWarnings(where, S, hash_order) ==
    LET l == ListOf(S, hash_order) IN [n \in 1..Len(l) |-> Msg(where, l[n])]

\* detect_unsupported_helpers(s) and convert_helpers(s) on a HelperConverter
\* whose set unsupported_helpers is empty: the converted text and the set
convert_text(s) ==
    [content |-> convert_helpers(s), unsupported |-> Range(detect_unsupported_helpers(s))]

\* IRBuilder.helper_converter, as what it answers for each of the texts
HelperConverter(texts) == [s \in texts |-> convert_text(s)]

\* HelperConverter.convert_headers after clear_unsupported_helpers: the
\* converted dict and the set unsupported_helpers
convert_headers(headers, helper_converter) ==
    [headers |-> [n \in DOMAIN headers |->
                     IF headers[n] # <<>> THEN helper_converter[headers[n]].content
                     ELSE headers[n]],
     unsupported |-> UNION {helper_converter[headers[n]].unsupported :
                               n \in {k \in DOMAIN headers : headers[k] # <<>>}}]

\* the body made of the first <bd> child: Nil, or the body with its type from
\* the stripped text and its content rewritten, and the set unsupported_helpers
build_body(bd, helper_converter) ==
    IF bd = Nil \/ bd[1] = <<>> \/ Strip(bd[1]) = <<>>
    THEN [body |-> Nil, type |-> None, unsupported |-> {}]
    ELSE LET body_content == Strip(bd[1])
             body_type == detect_body_type(body_content)
         IN [body |-> Some([type |-> body_type,
                            content |-> helper_converter[body_content].content]),
             type |-> body_type,
             unsupported |-> helper_converter[body_content].unsupported]

TextOr(child, default) == IF child = Nil \/ child[1] = "" THEN default ELSE child[1]
TextOrNone(child) == IF child = Nil \/ child[1] = "" THEN Nil ELSE child

\* _build_request without the change of the default method for a SOAP body
build_request_keep_method(rq, helper_converter, hash_order) ==
    LET m == IF TruthyM(rq.m) THEN rq.m[1] ELSE NoM
        method0 == TextOr(m.method, "GET")
        hs == IF TruthyDict(rq.headers) THEN convert_headers(rq.headers[1], helper_converter)
              ELSE [headers |-> EmptyDict, unsupported |-> {}]
        b == build_body(rq.bd, helper_converter)
        soap == /\ b.body # Nil /\ b.type = "xml"
                /\ Contains(b.body[1].content, <<"soapenv:Envelope">>)
    IN [request |->
           [method |-> IF soap /\ method0 = "POST" THEN "POST" ELSE method0,
            path |-> TextOr(m.path, "/"),
            path_template |-> TextOrNone(m.pathTemplate),
            soap_action |-> TextOrNone(m.soapAction),
            operation |-> TextOrNone(m.operation),
            headers |-> hs.headers,
            query |-> IF TruthyDict(rq.query) THEN rq.query[1] ELSE EmptyDict,
            body |-> b.body],
        warnings |->
           UnsupportedWarnings("Unsupported CA LISA helper in request header",
                               hs.unsupported, hash_order)
           \o UnsupportedWarnings("Unsupported CA LISA helper in request body",
                                  b.unsupported, hash_order)]

\* _build_request: the Request and the warnings appended
build_request(rq, helper_converter, hash_order) ==
    LET m == IF TruthyM(rq.m) THEN rq.m[1] ELSE NoM
        method0 == TextOr(m.method, "GET")
        hs == IF TruthyDict(rq.headers) THEN convert_headers(rq.headers[1], helper_converter)
              ELSE [headers |-> EmptyDict, unsupported |-> {}]
        b == build_body(rq.bd, helper_converter)
        soap == /\ b.body # Nil /\ b.type = "xml"
                /\ Contains(b.body[1].content, <<"soapenv:Envelope">>)
    IN [request |->
           [method |-> IF soap /\ method0 = "GET" THEN "POST" ELSE method0,
            path |-> TextOr(m.path, "/"),
            path_template |-> TextOrNone(m.pathTemplate),
            soap_action |-> TextOrNone(m.soapAction),
            operation |-> TextOrNone(m.operation),
            headers |-> hs.headers,
            query |-> IF TruthyDict(rq.query) THEN rq.query[1] ELSE EmptyDict,
            body |-> b.body],
        warnings |->
           UnsupportedWarnings("Unsupported CA LISA helper in request header",
                               hs.unsupported, hash_order)
           \o UnsupportedWarnings("Unsupported CA LISA helper in request body",
                                  b.unsupported, hash_order)]

\* int(child.text) of the <status> texts of the model; ValueError gives 200
StatusOf(t) == CASE t = "404" -> 404 [] t = "500" -> 500 [] OTHER -> 200

\* int(s) on the number symbols of the model; a sign may come first
IntSymbols == {"40", "100", "120"}
IntOf(sym) == CASE sym = "40" -> 40 [] sym = "100" -> 100 [] sym = "120" -> 120
IsIntText(s) == \/ Len(s) = 1 /\ s[1] \in IntSymbols
                \/ Len(s) = 2 /\ s[1] = "-" /\ s[2] \in IntSymbols
IntOfText(s) == IF Len(s) = 1 THEN IntOf(s[1]) ELSE 0 - IntOf(s[2])

\* ir.parse_latency on a <latency> element with the attribute ms (<<>>: the
\* element has none); a field that is None is 0 here
parse_latency(ms) ==
    LET dashes == {i \in 1..Len(ms) : ms[i] = "-"}
        i == CHOOSE d \in dashes : TRUE
        low == Slice(ms, 1, i - 1)
        high == Slice(ms, i + 1, Len(ms))
    IN IF ms # <<>> /\ Cardinality(dashes) = 1 /\ IsIntText(low) /\ IsIntText(high)
       THEN Some([mode |-> "range", min_ms |-> IntOfText(low), max_ms |-> IntOfText(high),
                  fixed_ms |-> 0])
       ELSE IF ms # <<>> /\ IsIntText(ms)
       THEN Some([mode |-> "fixed", min_ms |-> 0, max_ms |-> 0, fixed_ms |-> IntOfText(ms)])
       ELSE Nil

\* float(s) on the weight texts of the model: Nil for ValueError
FloatOf(t) == CASE t = "3" -> Some(3) [] t = "0" -> Some(0) [] OTHER -> Nil

\* ir.parse_weight on a <weight> element with the text t ("": no text, and
\* then the default of the attribute value, "1.0")
parse_weight(t) ==
    LET weight_text == IF t = "" THEN "1.0" ELSE t
    IN IF weight_text = "1.0" THEN 1
       ELSE IF FloatOf(weight_text) # Nil THEN FloatOf(weight_text)[1]
       ELSE 1

\* _build_response_variant: the ResponseVariant and the warnings appended
build_response_variant(rp, helper_converter, hash_order) ==
    LET hs == IF TruthyDict(rp.headers) THEN convert_headers(rp.headers[1], helper_converter)
              ELSE [headers |-> EmptyDict, unsupported |-> {}]
        b == build_body(rp.bd, helper_converter)
    IN [variant |->
           [status |-> IF TruthyM(rp.m) /\ rp.m[1].status # Nil /\ rp.m[1].status[1] # ""
                       THEN StatusOf(rp.m[1].status[1]) ELSE 200,
            headers |-> hs.headers,
            body |-> b.body,
            latency |-> IF TruthyM(rp.m) /\ rp.m[1].latency # Nil
                        THEN parse_latency(rp.m[1].latency[1]) ELSE Nil,
            weight |-> IF TruthyM(rp.m) /\ rp.m[1].weight # Nil
                       THEN parse_weight(rp.m[1].weight[1]) ELSE 1],
        warnings |->
           UnsupportedWarnings("Unsupported CA LISA helper in response header",
                               hs.unsupported, hash_order)
           \o UnsupportedWarnings("Unsupported CA LISA helper in response body",
                                  b.unsupported, hash_order)]

\* transaction_elem.get('id', 'unknown')
IdOf(t) == IF t.id = Nil THEN "unknown" ELSE t.id[1]

\* _process_transaction_start on the builder b = [ir, warnings]
process_transaction_start(b, t, helper_converter, hash_order) ==
    IF ~TruthyRq(t.rq) THEN b
    ELSE LET r == build_request(t.rq[1], helper_converter, hash_order)
         IN [ir |-> [b.ir EXCEPT !.transactions =
                        Append(@, [id |-> IdOf(t), request |-> r.request,
                                   response_variants |-> <<>>, selection_logic |-> Nil])],
             warnings |-> b.warnings \o r.warnings]

\* _process_response_variant: the variant goes to the first transaction of the
\* IR that has the id
process_response_variant(b, rp, transaction_id, helper_converter, hash_order) ==
    LET same == {n \in 1..Len(b.ir.transactions) : b.ir.transactions[n].id = transaction_id}
        n == CHOOSE k \in same : \A j \in same : k <= j
        r == build_response_variant(rp, helper_converter, hash_order)
        script == IF TruthyM(rp.m) THEN rp.m[1].matchScript ELSE Nil
    IN IF same = {} THEN b
       ELSE [ir |-> [b.ir EXCEPT
                        !.transactions[n].response_variants = Append(@, r.variant),
                        !.transactions[n].selection_logic =
                            IF script # Nil /\ script[1] # <<>> THEN Some(Strip(script[1]))
                            ELSE @],
             warnings |-> b.warnings \o r.warnings]

\* the loops of build; each pass works on the builder the pass before left
RECURSIVE ProcessVariants(_, _, _, _, _, _)
ProcessVariants(b, rps, k, transaction_id, helper_converter, hash_order) ==
    IF k > Len(rps) THEN b
    ELSE CHOOSE after \in
            {ProcessVariants(next, rps, k + 1, transaction_id, helper_converter, hash_order) :
                next \in {process_response_variant(b, rps[k], transaction_id,
                                                   helper_converter, hash_order)}} :
            TRUE

RECURSIVE ProcessTransactions(_, _, _, _, _)
ProcessTransactions(b, ts, k, helper_converter, hash_order) ==
    IF k > Len(ts) THEN b
    ELSE CHOOSE after \in
            {ProcessTransactions(done, ts, k + 1, helper_converter, hash_order) :
                done \in {ProcessVariants(started, ts[k].rps, 1, IdOf(ts[k]),
                                          helper_converter, hash_order) :
                             started \in {process_transaction_start(b, ts[k], helper_converter,
                                                                    hash_order)}}} :
            TRUE

NewBuilder == [ir |-> EmptyIR, warnings |-> <<>>]

\* IRBuilder.build: the builder after the call (build returns its ir)
build(d, helper_converter, hash_order) ==
    IF Malformed(d)
    THEN [NewBuilder EXCEPT !.warnings = Append(@, Msg("IR building failed", ParseError))]
    ELSE ProcessTransactions(NewBuilder, d.transactions, 1, helper_converter, hash_order)

\* build_ir_from_vsi, given the builder after build(): a tuple of the IR and
\* the builder's warnings
build_ir_from_vsi(b) == [class |-> "tuple", items |-> <<b.ir, b.warnings>>]

\* hasattr(obj, "transactions")
HasTransactions(obj) == obj.class = "IntermediateRepresentation"

(***************************************************************************)
(* mapper.map_ir_to_wiremock as one call                                   *)
(***************************************************************************)
StubsOfTransaction(transaction, t, strategy) ==
    LET order == sorted_variants(transaction.response_variants)
    IN [k \in 1..Len(order) |->
           create_stub(transaction, transaction.response_variants[order[k]], k - 1, strategy,
                       t, order[k])]

\* the stubs, or raised when json.loads raised for some variant
map_ir_to_wiremock(i, strategy) ==
    [raised |-> \E t \in 1..Len(i.transactions) :
                   \E v \in 1..Len(i.transactions[t].response_variants) :
                      build_response(i.transactions[t].response_variants[v]).raised,
     stubs |-> Flatten([t \in 1..Len(i.transactions) |->
                           StubsOfTransaction(i.transactions[t], t, strategy)])]

(***************************************************************************)
(* Specification SpecConv: a VSIConverter is made for a source document    *)
(* and convert() is called on it.                                          *)
(***************************************************************************)
MaxDocTx == 1
MaxRp == 1

Rq(other, m, headers, bd) ==
    Some([other |-> other, m |-> m, headers |-> headers, query |-> Nil, bd |-> bd])

\* the <rq> elements the documents are made of
RqKind(name) ==
    CASE name = "absent"    -> Nil
      [] name = "childless" -> Rq(FALSE, Nil, Nil, Nil)
      [] name = "no_m"      -> Rq(TRUE, Nil, Nil, Nil)
      [] name = "unsupported" ->
           Rq(FALSE, Some([NoM EXCEPT !.method = Some("PUT"), !.path = Some("")]),
              Some([n \in {"X-Id"} |-> TextOf(<<"unknown">>)]),
              Some(<<" ">> \o TextOf(<<"unknown", "bad_arg">>) \o <<"\n">>))

RqKinds == {"absent", "childless", "no_m", "unsupported"}

Rp(m, headers, bd) == [m |-> m, headers |-> headers, bd |-> bd]

\* the <rp> elements the documents are made of
RpKind(name) ==
    CASE name = "plain"    -> Rp(Some([NoM EXCEPT !.status = Some("404")]), Nil, Nil)
      [] name = "template" ->
           Rp(Nil, Nil,
              Some(<<" ", "{", "\"id\":">> \o TextOf(<<"random_number">>) \o <<"}">>))
      [] name = "unsupported" ->
           Rp(Some([NoM EXCEPT !.status = Some("abc")]),
              Some([n \in {"X-Token"} |-> TextOf(<<"bad_arg">>)]),
              Some(<<"{", "\"id\":">> \o TextOf(<<"unknown">>) \o <<"}">>))

RpKinds == {"plain", "template", "unsupported"}

ProtocolTexts == {"", "HTTPS", "Http/S", "mq"}

\* lists of at most nTx transactions with at most budget <rp> elements in all
RECURSIVE DocShapes(_, _)
DocShapes(nTx, budget) ==
    IF nTx = 0 THEN {<<>>}
    ELSE {<<>>} \cup
         UNION {{<<[rq |-> q, rps |-> ps]>> \o rest :
                    q \in RqKinds, rest \in DocShapes(nTx - 1, budget - Len(ps))}
                : ps \in StringsUpTo(RpKinds, budget)}

TransactionsOf(shape) ==
    [t \in 1..Len(shape) |->
        [id |-> Some(TxIds[t]),
         data |-> "none",
         rq |-> RqKind(shape[t].rq),
         rps |-> [r \in 1..Len(shape[t].rps) |-> RpKind(shape[t].rps[r])]]]

\* every text the builder gives to its rewriter when it builds the IR of d
TextsOfElement(e) ==
    (IF e.bd # Nil /\ Strip(e.bd[1]) # <<>> THEN {Strip(e.bd[1])} ELSE {})
    \cup (IF e.headers # Nil
          THEN {e.headers[1][n] : n \in DOMAIN e.headers[1]} \ {<<>>} ELSE {})

TextsOf(d) ==
    UNION {(IF d.transactions[t].rq # Nil THEN TextsOfElement(d.transactions[t].rq[1]) ELSE {})
           \cup UNION {TextsOfElement(d.transactions[t].rps[r]) :
                          r \in 1..Len(d.transactions[t].rps)}
           : t \in 1..Len(d.transactions)}

InitConv ==
    /\ \E shape \in DocShapes(MaxDocTx, MaxRp), p \in {Nil} \cup {Some(x) : x \in ProtocolTexts} :
          \E at \in {Nil} \cup {Some(k) : k \in (-1)..(Len(shape) + Len(p))} :
             doc = [version |-> Some("10.5"), build |-> Nil, protocol |-> p,
                    transactions |-> TransactionsOf(shape), malformed_at |-> at]
    /\ strict_mode = Nil
    /\ parse_result = Nil
    /\ builder = Nil
    /\ report = NewReport
    /\ exit_code = Nil
    /\ output = NoOutput
    /\ stages = {}
    /\ cpc = "new"
    /\ BodyIdle
    /\ RwIdle
    /\ MapIdle
    /\ UnitIdle

\* VSIConverter(input_file, output_dir) or VSIConverter(..., strict_mode=...):
\* __init__ has no parameter strict_mode, so the second raises TypeError
Construct ==
    /\ cpc = "new"
    /\ \E arg \in {Nil, Some(TRUE), Some(FALSE)} :
          /\ strict_mode' = arg
          /\ cpc' = IF arg = Nil THEN "constructed" ELSE "type_error"
    /\ UNCHANGED <<doc, parse_result, builder, report, exit_code, output, stages, notConvVars>>

\* convert, up to the test of is_http
Parse ==
    /\ cpc = "constructed"
    /\ LET r == parse_vsi_file(doc)
       IN /\ parse_result' = Some(r)
          /\ report' = [report EXCEPT !.source_version = r.metadata.source_version,
                                      !.build_number = r.metadata.build_number,
                                      !.transactions_count = r.transactions_count,
                                      !.warnings = @ \o r.warnings]
    /\ stages' = stages \cup {"parser"}
    /\ cpc' = "parsed"
    /\ UNCHANGED <<doc, strict_mode, builder, exit_code, output, notConvVars>>

\* convert, the branch taken when is_http is false
SkipNonHttp ==
    /\ cpc = "parsed"
    /\ ~parse_result[1].is_http
    /\ report' = [report EXCEPT !.warnings =
                     Append(@, Msg("Non-HTTP protocol detected", parse_result[1].protocol))]
    /\ output' = [output EXCEPT !.report = Some(report')]
    /\ exit_code' = Some(0)
    /\ cpc' = "done"
    /\ UNCHANGED <<doc, strict_mode, parse_result, builder, stages, notConvVars>>

\* str(n) for the counts of the model
NumStr(n) == <<"0", "1", "2", "3", "4", "5", "6", "7", "8", "9">>[n + 1]

RECURSIVE SumOf(_)
SumOf(ns) == IF ns = <<>> THEN 0 ELSE Head(ns) + SumOf(Tail(ns))

\* the except clause of convert
Failed(rep, message) == [rep EXCEPT !.warnings = Append(@, Msg("Conversion failed", message))]

\* convert, from the notes on the parse to the end: the IR is built, and what
\* build_ir_from_vsi returned is used as the IR
BuildAndMap ==
    /\ cpc = "parsed"
    /\ parse_result[1].is_http
    /\ \E helper_converter \in {HelperConverter(TextsOf(doc))} :
       \E hash_order \in Orderings(UNION {helper_converter[s].unsupported :
                                             s \in DOMAIN helper_converter}) :
       \E b \in {build(doc, helper_converter, hash_order)} :
          LET r == parse_result[1]
              rep1 == [report EXCEPT !.notes =
                          @ \o <<Msg("Detected layout", <<r.layout>>),
                                 Msg("Protocol", IF r.protocol # Nil THEN r.protocol
                                                 ELSE <<"HTTP (assumed)">>),
                                 Msg("Transactions found", <<NumStr(r.transactions_count)>>)>>]
              result == build_ir_from_vsi(b)
          IN /\ builder' = Some(b)
             /\ IF ~HasTransactions(result)
                THEN /\ report' = Failed(rep1, <<"'tuple' object has no attribute 'transactions'">>)
                     /\ output' = [output EXCEPT !.report = Some(report')]
                     /\ stages' = stages \cup {"builder"}
                     /\ exit_code' = Some(1)
                ELSE LET variants == SumOf([t \in 1..Len(result.transactions) |->
                                              Len(result.transactions[t].response_variants)])
                         rep2 == [rep1 EXCEPT
                                    !.variants_count = variants,
                                    !.notes = @ \o <<Msg("Built IR with",
                                                         <<NumStr(Len(result.transactions))>>),
                                                     Msg("Total response variants",
                                                         <<NumStr(variants)>>)>>]
                         mapped == map_ir_to_wiremock(result, "both")
                         rep3 == [rep2 EXCEPT
                                    !.stubs_generated = Len(mapped.stubs),
                                    !.notes = Append(@, Msg("Generated",
                                                            <<NumStr(Len(mapped.stubs))>>))]
                     IN IF mapped.raised
                        THEN /\ report' = Failed(rep2, <<"Expecting property name">>)
                             /\ output' = [output EXCEPT !.report = Some(report')]
                             /\ stages' = stages \cup {"builder", "mapper"}
                             /\ exit_code' = Some(1)
                        ELSE /\ report' = [rep3 EXCEPT !.notes =
                                              Append(@, Msg("WireMock mapping completed successfully",
                                                            <<>>))]
                             /\ output' = [report |-> Some(rep3), mappings |-> mapped.stubs]
                             /\ stages' = stages \cup {"builder", "mapper", "writer"}
                             /\ exit_code' = Some(0)
    /\ cpc' = "done"
    /\ UNCHANGED <<doc, strict_mode, parse_result, notConvVars>>

NextConv == Construct \/ Parse \/ SkipNonHttp \/ BuildAndMap

SpecConv == InitConv /\ [][NextConv]_vars

\* the IR after map_ir_to_stubs: the variants are gone through transaction by
\* transaction in the sorted order, up to the first one json.loads raises on,
\* and _build_response leaves its header dict in each of them
MapOrder(i) ==
    Flatten([t \in 1..Len(i.transactions) |->
                LET order == sorted_variants(i.transactions[t].response_variants)
                IN [k \in 1..Len(order) |-> <<t, order[k]>>]])

ir_after_mapping(i) ==
    LET order == MapOrder(i)
        Raises(n) == build_response(
                        i.transactions[order[n][1]].response_variants[order[n][2]]).raised
        raising == {n \in 1..Len(order) : Raises(n)}
        last == IF raising = {} THEN Len(order)
                ELSE CHOOSE n \in raising : \A j \in raising : n <= j
        Reached(t, v) == \E n \in 1..last : order[n] = <<t, v>>
    IN [i EXCEPT !.transactions =
           [t \in 1..Len(i.transactions) |->
               [i.transactions[t] EXCEPT !.response_variants =
                   [v \in 1..Len(i.transactions[t].response_variants) |->
                       LET variant == i.transactions[t].response_variants[v]
                       IN IF Reached(t, v)
                          THEN [variant EXCEPT !.headers = build_response(variant).variant_headers]
                          ELSE variant]]]]

(***************************************************************************)
(* Specification SpecBuild: an IRBuilder is made for a source document,    *)
(* build() is called on it and the IR it returns is given to               *)
(* map_ir_to_wiremock.                                                     *)
(***************************************************************************)
MaxBuildTx == 2
MaxBuildRp == 2

SoapBody == <<"<", "soapenv:Envelope", ">", "<", "/soapenv:Envelope", ">">>
XmlBody == <<"<", "a", ">", "<", "/a", ">">>

\* the <rq> elements of these documents
BuildRq(name) ==
    CASE name = "absent"   -> Nil
      [] name = "soap"     -> Rq(FALSE, Nil, Nil, Some(<<"\n", " ">> \o SoapBody \o <<"\n">>))
      [] name = "soap_put" -> Rq(FALSE, Some([NoM EXCEPT !.method = Some("PUT")]), Nil,
                                 Some(SoapBody))
      [] name = "childless" -> Rq(FALSE, Nil, Nil, Nil)
      [] name = "soap_get" -> Rq(FALSE, Some([NoM EXCEPT !.method = Some("GET")]), Nil,
                                 Some(SoapBody))
      [] name = "xml"      -> Rq(FALSE, Some([NoM EXCEPT !.path = Some("/svc")]), Nil,
                                 Some(XmlBody))

BuildRqKinds == {"absent", "soap", "soap_put", "xml"}

\* the <rp> elements of these documents
BuildRp(name) ==
    CASE name = "script"      ->
           Rp(Some([NoM EXCEPT !.matchScript = Some(<<" ", "x", "\n">>),
                               !.latency = Some(<<"100">>), !.weight = Some("")]), Nil, Nil)
      [] name = "bad_latency" ->
           Rp(Some([NoM EXCEPT !.latency = Some(<<"40", "-", "abc">>), !.weight = Some("3"),
                               !.matchScript = Some(<<" ">>)]), Nil, Nil)
      [] name = "bad_weight"  ->
           Rp(Some([NoM EXCEPT !.latency = Some(<<"40", "-", "120">>), !.weight = Some("abc")]),
              Nil, Nil)
      [] name = "reversed_latency" ->
           Rp(Some([NoM EXCEPT !.latency = Some(<<"120", "-", "40">>)]), Nil, Nil)
      [] name = "negative_latency" ->
           Rp(Some([NoM EXCEPT !.latency = Some(<<"-", "40">>)]), Nil, Nil)

BuildRpKinds == {"script", "bad_latency", "bad_weight"}

\* documents of one transaction whose request names the default method itself
ExplicitGetShapes(budget) ==
    {<<[id |-> "t1", rq |-> "soap_get", rps |-> ps]>> : ps \in StringsUpTo(BuildRpKinds, budget)}

\* documents of one transaction with one <rp> whose latency is a range with
\* the larger number first, or a number with a sign
LatencyShapes ==
    {<<[id |-> "t1", rq |-> "xml", rps |-> <<k>>]>> : k \in {"reversed_latency", "negative_latency"}}

\* documents whose first transaction has a request block without child elements
ChildlessShapes(budget) ==
    {<<[id |-> "t1", rq |-> "childless", rps |-> ps]>> \o rest :
        ps \in StringsUpTo(BuildRpKinds, budget),
        rest \in {<<>>, <<[id |-> "t2", rq |-> "xml", rps |-> <<>>]>>}}

\* lists of at most nTx transactions with at most budget <rp> elements in all;
\* a transaction has its own id, or the second one the id of the first
RECURSIVE BuildShapes(_, _, _)
BuildShapes(from, nTx, budget) ==
    IF from > nTx THEN {<<>>}
    ELSE {<<>>} \cup
         UNION {{<<[id |-> i, rq |-> q, rps |-> ps]>> \o rest :
                    i \in {TxIds[IF from = 2 THEN 1 ELSE from], TxIds[from]},
                    q \in BuildRqKinds,
                    rest \in BuildShapes(from + 1, nTx, budget - Len(ps))}
                : ps \in StringsUpTo(BuildRpKinds, budget)}

BuildTransactionsOf(shape) ==
    [t \in 1..Len(shape) |->
        [id |-> Some(shape[t].id),
         data |-> "none",
         rq |-> BuildRq(shape[t].rq),
         rps |-> [r \in 1..Len(shape[t].rps) |-> BuildRp(shape[t].rps[r])]]]

InitBuild ==
    /\ \E shape \in BuildShapes(1, MaxBuildTx, MaxBuildRp) \cup ExplicitGetShapes(MaxBuildRp)
                       \cup ChildlessShapes(MaxBuildRp) \cup LatencyShapes :
          doc = [version |-> Some("10.5"), build |-> Nil, protocol |-> Nil,
                 transactions |-> BuildTransactionsOf(shape), malformed_at |-> Nil]
    /\ strict_mode = Nil
    /\ parse_result = Nil
    /\ builder = Nil
    /\ report = NewReport
    /\ exit_code = Nil
    /\ output = NoOutput
    /\ stages = {}
    /\ cpc = "idle"
    /\ parser = NewParser
    /\ layout = Nil
    /\ ppc = {}
    /\ bpc = "new"
    /\ BodyIdle
    /\ RwIdle
    /\ MapIdle

\* builder = IRBuilder(path); builder.build()
Build ==
    /\ bpc = "new"
    /\ \E helper_converter \in {HelperConverter(TextsOf(doc))} :
       \E hash_order \in Orderings(UNION {helper_converter[s].unsupported :
                                             s \in DOMAIN helper_converter}) :
          builder' = Some(build(doc, helper_converter, hash_order))
    /\ bpc' = "built"
    /\ UNCHANGED <<doc, strict_mode, parse_result, report, exit_code, output, stages, cpc,
                   parser, layout, ppc, bodyVars, rwVars, mapVars>>

\* map_ir_to_wiremock(builder.ir)
MapBuilt ==
    /\ bpc = "built"
    /\ \E mapped \in {map_ir_to_wiremock(builder[1].ir, soap_match_strategy)} :
          /\ stubs' = IF mapped.raised THEN <<>> ELSE mapped.stubs
          /\ bpc' = IF mapped.raised THEN "raised" ELSE "mapped"
    /\ builder' = Some([builder[1] EXCEPT !.ir = ir_after_mapping(@)])
    /\ UNCHANGED <<doc, strict_mode, parse_result, report, exit_code, output, stages, cpc,
                   parser, layout, ppc, bodyVars, rwVars,
                   ir, ir0, soap_match_strategy, mti, mk, mpc>>

NextBuild == Build \/ MapBuilt

SpecBuild == InitBuild /\ [][NextBuild]_vars


(***************************************************************************)
(* Specification SpecParse: a VSIParser is made for a source document and  *)
(* detect_layout, extract_metadata and detect_protocol are called on it,   *)
(* each once, in any order.                                                *)
(***************************************************************************)
MaxParseTx == 2

\* the <t> elements of these documents: with a <bd> below them or not, and with
\* a <reqData> child before or after it or not
ParseTx(name) ==
    CASE name = "other" -> [id |-> Nil, data |-> "none", rq |-> Nil, rps |-> <<>>]
      [] name = "bd"    -> [id |-> Nil, data |-> "none",
                            rq |-> Rq(FALSE, Nil, Nil, Some(<<"a">>)), rps |-> <<>>]
      [] name = "rr"    -> [id |-> Nil, data |-> "first", rq |-> Nil, rps |-> <<>>]
      [] name = "rr_bd" -> [id |-> Nil, data |-> "first",
                            rq |-> Nil, rps |-> <<Rp(Nil, Nil, Some(<<"a">>))>>]
      [] name = "bd_rr" -> [id |-> Nil, data |-> "last",
                            rq |-> Rq(FALSE, Nil, Nil, Some(<<"a">>)), rps |-> <<>>]

ParseTxKinds == {"other", "bd", "rr", "rr_bd", "bd_rr"}

InitParse ==
    /\ \E shape \in StringsUpTo(ParseTxKinds, MaxParseTx),
          p \in {Nil, Some("mq"), Some("HTTPS")} :
          \E at \in {Nil} \cup {Some(k) : k \in (-1)..(Len(shape) + Len(p))} :
             doc = [version |-> Some("10.5"), build |-> Some("7"), protocol |-> p,
                    transactions |-> [t \in 1..Len(shape) |-> ParseTx(shape[t])],
                    malformed_at |-> at]
    /\ strict_mode = Nil
    /\ parse_result = Nil
    /\ builder = Nil
    /\ report = NewReport
    /\ exit_code = Nil
    /\ output = NoOutput
    /\ stages = {}
    /\ cpc = "idle"
    /\ parser = NewParser
    /\ layout = Nil
    /\ ppc = {}
    /\ bpc = "idle"
    /\ BodyIdle
    /\ RwIdle
    /\ MapIdle

\* parser.detect_layout()
DetectLayout ==
    /\ "detect_layout" \notin ppc
    /\ parser' = detect_layout(parser, doc)
    /\ layout' = Some(parser'.layout)
    /\ ppc' = ppc \cup {"detect_layout"}
    /\ UNCHANGED <<convVars, bpc, bodyVars, rwVars, mapVars>>

\* parser.extract_metadata()
ExtractMetadata ==
    /\ "extract_metadata" \notin ppc
    /\ parser' = extract_metadata(parser, doc)
    /\ ppc' = ppc \cup {"extract_metadata"}
    /\ UNCHANGED <<convVars, layout, bpc, bodyVars, rwVars, mapVars>>

\* parser.detect_protocol()
DetectProtocol ==
    /\ "detect_protocol" \notin ppc
    /\ parser' = detect_protocol(parser, doc)
    /\ ppc' = ppc \cup {"detect_protocol"}
    /\ UNCHANGED <<convVars, layout, bpc, bodyVars, rwVars, mapVars>>

NextParse == DetectLayout \/ ExtractMetadata \/ DetectProtocol

SpecParse == InitParse /\ [][NextParse]_vars

(***************************************************************************)
(* Specification SpecRepeat: detect_layout, is_http_protocol and parse are *)
(* called on one VSIParser any number of times, in any order.              *)
(***************************************************************************)
\* calls are made while the parser's count and warnings are within these
MaxCount == 4
MaxWarnings == 4

CanCall == parser.transactions_count <= MaxCount /\ Len(parser.warnings) <= MaxWarnings

\* parser.detect_layout(), for the first time or again
CallDetectLayout ==
    /\ CanCall
    /\ parser' = detect_layout(parser, doc)
    /\ layout' = Some(parser'.layout)
    /\ ppc' = ppc \cup {"detect_layout"}
    /\ UNCHANGED <<convVars, bpc, bodyVars, rwVars, mapVars>>

\* parser.is_http_protocol(), for the first time or again
CallIsHttpProtocol ==
    /\ CanCall
    /\ parser' = is_http_protocol(parser, doc).parser
    /\ ppc' = ppc \cup {"is_http_protocol"}
    /\ UNCHANGED <<convVars, layout, bpc, bodyVars, rwVars, mapVars>>

\* parser.parse(), for the first time or again
CallParse ==
    /\ CanCall
    /\ LET p1 == detect_layout(parser, doc)
           p2 == extract_metadata(p1, doc)
           p3 == detect_protocol(p2, doc)
       IN /\ parser' = is_http_protocol(p3, doc).parser
          /\ layout' = Some(p1.layout)
    /\ parse_result' = Some(parse(parser, doc))
    /\ ppc' = ppc \cup {"parse"}
    /\ UNCHANGED <<doc, strict_mode, builder, report, exit_code, output, stages, cpc, bpc,
                   bodyVars, rwVars, mapVars>>

NextRepeat == CallDetectLayout \/ CallIsHttpProtocol \/ CallParse

SpecRepeat == InitParse /\ [][NextRepeat]_vars


(***************************************************************************)
(* Claims.                                                                 *)
(***************************************************************************)

\* the string between the first and the last symbol that is not white space
TrimmedOf(s) ==
    LET solid == {n \in 1..Len(s) : s[n] \notin WhiteSpace}
    IN IF solid = {} THEN <<>>
       ELSE SubSeq(s, CHOOSE i \in solid : \A n \in solid : i <= n,
                      CHOOSE j \in solid : \A n \in solid : n <= j)

ClaimedBodyType(s) ==
    LET t == TrimmedOf(s) IN
    IF t # <<>> /\ t[1] = "{" /\ t[Len(t)] = "}" THEN "json"
    ELSE IF t # <<>> /\ t[1] = "<" /\ t[Len(t)] = ">" THEN "xml"
    ELSE "text"

\* C9: detect_body_type is total and depends only on the trimmed content: Json
\* iff the trimmed content starts with { and ends with }, otherwise Xml iff it
\* starts with < and ends with >, otherwise Text; empty or white-space-only
\* content is Text, and white space around the content never changes the result.
C9_BodyTypeOfTrimmedContent ==
    /\ typeOfContent # None => typeOfContent = ClaimedBodyType(content)
    /\ typeOfPadded # None => typeOfPadded = ClaimedBodyType(padded)
    /\ (typeOfContent # None /\ typeOfPadded # None) => typeOfContent = typeOfPadded
    /\ (typeOfContent # None /\ Range(content) \subseteq WhiteSpace) => typeOfContent = "text"

C9_Witness ==
    /\ typeOfContent = "json"
    /\ typeOfPadded = "json"
    /\ Len(padded) > Len(content)
    /\ " " \in Range(content)

\* the target expression the rewrite table gives for each piece
TargetOf(name) ==
    CASE name = "random_string" ->
           <<"{", "{", "randomValue type='ALPHANUMERIC' length='", "10", "'", "}", "}">>
      [] name = "random_number" ->
           <<"{", "{", "randomInt lower=", "1", " upper=", "100", "}", "}">>
      [] name = "random_boolean" -> <<"{", "{", "pickRandom true false", "}", "}">>
      [] name = "random_email" -> <<"{", "{", "random 'Internet.safeEmailAddress'", "}", "}">>
      [] name = "random_ssn" -> <<"{", "{", "random 'IdNumber.ssnValid'", "}", "}">>
      [] name = "random_credit_card" ->
           <<"{", "{", "random 'Business.creditCardNumber'", "}", "}">>
      [] name = "date_plain" ->
           <<"{", "{", "now offset='", "+", "1", " days' format='", "yyyy-MM-dd", "'", "}", "}">>
      [] name = "date_encoded" ->
           <<"{", "{", "now offset='", "-", "5", " days' format='", "yyyy-MM-dd", "'", "}", "}">>
      [] name = "date_plain_semicolon" ->
           <<"{", "{", "now offset='", "+", "1", " days' format='", "yyyy-MM-dd", "'", "}", "}">>
      [] name = "request" ->
           <<"{", "{", "xPath request.body '//", "user/id", "/text()'", "}", "}">>
      [] name = "request_comment" ->
           <<"{", "{", "xPath request.body '//", "a", "/text()'", "}", "}">>
      [] name = "unknown" -> <<"[UNSUPPORTED: ", "doUnknownHelper()", "]">>
      [] name = "bad_arg" -> <<"[UNSUPPORTED: ", "doRandomString(", "abc", ")", "]">>
      [] OTHER -> Segment(name)

ClaimedRewrite(names) == Flatten([n \in 1..Len(names) |-> TargetOf(names[n])])

\* C8: every {{=...}} expression of a string given to the rewriter is either
\* recognized, and then replaced by its target expression, or unsupported, and
\* then replaced by [UNSUPPORTED: <inner>] and added to the unsupported set; the
\* rewrite of each expression is the same whatever stands beside it.
C8_EveryExpressionRewrittenOrMarked ==
    (hpc = "body" /\ text # <<>>) =>
        /\ converted = Some(ClaimedRewrite(segs))
        /\ unsupported_helpers =
               {Segment(segs[n]) : n \in {k \in 1..Len(segs) : segs[k] \in UnsupportedSegments}}

\* ---- claims on VSIConverter.convert
\* the document is well-formed and its protocol is http, https or http/s in
\* any case, or it names none
WellFormedHttp ==
    /\ doc.malformed_at = Nil
    /\ doc.protocol = Nil \/ doc.protocol[1] \in {"", "http", "HTTPS", "Http/S"}

\* the unsupported expressions in a text
UnsupportedExpressions(s) ==
    {Segment(n) : n \in {u \in UnsupportedSegments : Contains(s, Segment(u))}}

UnsupportedInDict(where, e) ==
    IF e = Nil THEN {}
    ELSE UNION {{Msg(where, x) : x \in UnsupportedExpressions(e[1][n])} : n \in DOMAIN e[1]}

UnsupportedInBody(where, bd) ==
    IF bd = Nil THEN {} ELSE {Msg(where, x) : x \in UnsupportedExpressions(bd[1])}

\* the diagnostics the unsupported expressions of transaction t call for
ExpectedDiagnostics(t) ==
    (IF t.rq = Nil THEN {}
     ELSE UnsupportedInDict("Unsupported CA LISA helper in request header", t.rq[1].headers)
          \cup UnsupportedInBody("Unsupported CA LISA helper in request body", t.rq[1].bd))
    \cup UNION {UnsupportedInDict("Unsupported CA LISA helper in response header",
                                  t.rps[r].headers)
                \cup UnsupportedInBody("Unsupported CA LISA helper in response body",
                                       t.rps[r].bd)
                : r \in 1..Len(t.rps)}

AllExpectedDiagnostics ==
    UNION {ExpectedDiagnostics(doc.transactions[t]) : t \in 1..Len(doc.transactions)}

\* the [UNSUPPORTED: ...] marker of an unsupported expression
MarkerOf(expression) ==
    <<"[UNSUPPORTED: ">> \o SubSeq(expression, 4, Len(expression) - 2) \o <<"]">>

\* C3: with strict mode requested, a conversion of a source with unsupported
\* expressions ends with exit code 1; without strict mode it ends with exit
\* code 0, every unsupported expression is in the report's diagnostics, and
\* every unsupported expression of a response body is left as its marker in
\* the body of an emitted stub.
C3_StrictFailsLenientSucceeds ==
    (WellFormedHttp /\ AllExpectedDiagnostics # {}) =>
        /\ (strict_mode = Some(TRUE) /\ cpc \in {"type_error", "done"}) => exit_code = Some(1)
        /\ (strict_mode = Nil /\ cpc = "done") =>
              /\ exit_code = Some(0)
              /\ AllExpectedDiagnostics \subseteq Range(report.warnings)
              /\ \A t \in 1..Len(doc.transactions) :
                    \A r \in 1..Len(doc.transactions[t].rps) :
                       LET bd == doc.transactions[t].rps[r].bd IN
                       bd # Nil =>
                          \A x \in UnsupportedExpressions(bd[1]) :
                             \E n \in 1..Len(output.mappings) :
                                /\ output.mappings[n].response.body # Nil
                                /\ Contains(output.mappings[n].response.body[1], MarkerOf(x))

\* C4: when the protocol the parser detected is not http, https or http/s
\* (in any case), convert returns 0, writes no stub, runs neither the IR
\* builder nor the mapper, and records a warning that names the protocol.
C4_NonHttpIsSkipped ==
    (cpc = "done" /\ parse_result[1].protocol # Nil
       /\ Lower(parse_result[1].protocol[1]) \notin {"http", "https", "http/s"}) =>
        /\ exit_code = Some(0)
        /\ output.mappings = <<>>
        /\ report.stubs_generated = 0
        /\ builder = Nil
        /\ stages \cap {"builder", "mapper", "writer"} = {}
        /\ Msg("Non-HTTP protocol detected", parse_result[1].protocol) \in Range(report.warnings)

\* a document with protocol mq and a transaction with response variants was
\* converted
C4_Witness ==
    /\ cpc = "done"
    /\ doc.protocol = Some("mq")
    /\ doc.malformed_at = Nil
    /\ \E t \in 1..Len(doc.transactions) :
          TruthyRq(doc.transactions[t].rq) /\ Len(doc.transactions[t].rps) > 0
    /\ exit_code = Some(0)
    /\ Msg("Non-HTTP protocol detected", <<"mq">>) \in Range(report.warnings)

\* C5: a source that is not well-formed XML makes the run fail: neither the
\* detector nor the builder returns a result for it, convert returns 1, and
\* no stub and no IR come out of it.
C5_MalformedXmlFailsWholeRun ==
    (doc.malformed_at # Nil /\ cpc \in {"parsed", "done"}) =>
        /\ parse_result = Nil
        /\ builder = Nil
        /\ cpc = "done" => exit_code = Some(1) /\ output.mappings = <<>>

\* C6: on a well-formed HTTP-family source without unsupported expressions
\* convert returns 0 and the report's stubs_generated equals its variants
\* count, which is the number of response variants of the IR that was built.
C6_ReportCountsVariants ==
    (cpc = "done" /\ WellFormedHttp /\ AllExpectedDiagnostics = {}) =>
        /\ exit_code = Some(0)
        /\ report.stubs_generated = report.variants_count
        /\ builder # Nil
        /\ report.variants_count =
              SumOf([t \in 1..Len(builder[1].ir.transactions) |->
                        Len(builder[1].ir.transactions[t].response_variants)])

\* C7: every unsupported expression of a request header, request body,
\* response header or response body of a transaction is in the diagnostics of
\* the report, tagged with the field it came from.
C7_UnsupportedExpressionsReachReport ==
    (cpc = "done" /\ WellFormedHttp) =>
        AllExpectedDiagnostics \subseteq Range(report.warnings)

\* ---- claims on WireMockMapper.map_ir_to_stubs
\* the stubs map_ir_to_stubs gave back: none when it raised
EmittedStubs == IF mpc = "returned" THEN stubs ELSE <<>>

StubsOf(list, t, v) == {n \in 1..Len(list) : list[n].tx = t /\ list[n].variant = v}

\* C1: for every IR, map_ir_to_stubs emits for each transaction exactly as many
\* stubs as the transaction has response variants, each variant giving exactly
\* one stub that carries the transaction's id; an IR without transactions gives
\* an empty list.
C1_OneStubPerVariant ==
    mpc \in {"returned", "raised"} =>
        /\ \A t \in 1..Len(ir0.transactions) :
              \A v \in 1..Len(ir0.transactions[t].response_variants) :
                 /\ Cardinality(StubsOf(EmittedStubs, t, v)) = 1
                 /\ \A n \in StubsOf(EmittedStubs, t, v) :
                       EmittedStubs[n].metadata.devtest_transaction_id = ir0.transactions[t].id
        /\ Len(EmittedStubs) =
              Cardinality({<<t, v>> \in (1..Len(ir0.transactions)) \X (1..MaxVariants) :
                              v <= Len(ir0.transactions[t].response_variants)})

\* position of variant v in the weight-descending order of the variants vs,
\* variants of equal weight in source order
RankByWeight(vs, v) ==
    Cardinality({u \in 1..Len(vs) : vs[u].weight > vs[v].weight})
        + Cardinality({u \in 1..(v - 1) : vs[u].weight = vs[v].weight})

DefaultContentType(type) ==
    CASE type = "json" -> "application/json"
      [] type = "xml"  -> "application/xml"
      [] OTHER         -> "text/plain"

\* C11: a response body with template markers is emitted as the literal string
\* whatever its type; the response gets the Content-Type of that type only if
\* the variant carries no Content-Type, and a Content-Type the variant carries
\* is emitted unchanged.
C11_TemplatedBodyKeepsContentType ==
    \A n \in 1..Len(stubs) :
       LET variant == ir0.transactions[stubs[n].tx].response_variants[stubs[n].variant]
           response == stubs[n].response
       IN (variant.body # Nil /\ HasTemplateMarkers(variant.body[1].content)) =>
             /\ response.body = Some(variant.body[1].content)
             /\ response.jsonBody = Nil
             /\ "Content-Type" \in DOMAIN response.headers
             /\ response.headers["Content-Type"] =
                   IF "Content-Type" \in DOMAIN variant.headers
                   THEN variant.headers["Content-Type"]
                   ELSE DefaultContentType(variant.body[1].type)

\* ---- claims on IRBuilder.build followed by map_ir_to_wiremock
\* the position in the IR of the transaction built from the t-th <t> of d
IrIndexOf(d, t) == Cardinality({u \in 1..t : TruthyRq(d.transactions[u].rq)})

\* the <rq> has no <method> tag, and its body is XML with soapenv:Envelope in it
SoapWithoutMethod(rq) ==
    /\ rq # Nil
    /\ (rq[1].m = Nil \/ rq[1].m[1].method = Nil)
    /\ rq[1].bd # Nil
    /\ ClaimedBodyType(rq[1].bd[1]) = "xml"
    /\ \E n \in 1..Len(rq[1].bd[1]) : rq[1].bd[1][n] = "soapenv:Envelope"

\* C12: a transaction whose request has no method tag and whose request body is
\* XML containing soapenv:Envelope is built with method POST, and every stub
\* mapped from that transaction matches method POST.
C12_SoapRequestIsPost ==
    bpc \in {"built", "mapped", "raised"} =>
       \A t \in 1..Len(doc.transactions) :
          SoapWithoutMethod(doc.transactions[t].rq) =>
             /\ IrIndexOf(doc, t) \in 1..Len(builder[1].ir.transactions)
             /\ builder[1].ir.transactions[IrIndexOf(doc, t)].request.method = "POST"
             /\ \A n \in 1..Len(stubs) :
                   stubs[n].tx = IrIndexOf(doc, t) => stubs[n].request.method = "POST"

\* a SOAP request without <m> has been built and mapped to two stubs, both on
\* POST with the body as an XML pattern
C12_Witness ==
    /\ bpc = "mapped"
    /\ Len(doc.transactions) = 1
    /\ SoapWithoutMethod(doc.transactions[1].rq)
    /\ doc.transactions[1].rq[1].m = Nil
    /\ Len(stubs) = 2
    /\ stubs[1].request.method = "POST" /\ stubs[2].request.method = "POST"
    /\ stubs[1].request.bodyPatterns # Nil
    /\ stubs[1].request.bodyPatterns[1][1].kind = "equalToXml"

\* C13: whenever the request of the IR carries a SOAP action, every stub of
\* the transaction has the request header predicate SOAPAction equalTo that
\* action, whatever the SOAP match strategy is.
C13_SoapActionAlwaysAsserted ==
    \A n \in 1..Len(stubs) :
       LET request == ir0.transactions[stubs[n].tx].request IN
       request.soap_action # Nil =>
          /\ stubs[n].request.headers # Nil
          /\ "SOAPAction" \in DOMAIN stubs[n].request.headers[1]
          /\ stubs[n].request.headers[1]["SOAPAction"] = [equalTo |-> request.soap_action[1]]

\* C14: the metadata of every stub carries the id of its transaction and the
\* weight of its variant, and the selection logic of the transaction if and only
\* if the transaction has one (a snippet that is not empty); the snippet is then
\* on every stub of the transaction, whichever <rp> its matchScript came from.
C14_MetadataOnEveryStub ==
    bpc = "mapped" =>
       \A n \in 1..Len(stubs) :
          LET transaction == builder[1].ir.transactions[stubs[n].tx]
              variant == transaction.response_variants[stubs[n].variant]
              snippet == transaction.selection_logic
          IN /\ stubs[n].metadata.devtest_transaction_id = transaction.id
             /\ stubs[n].metadata.devtest_variant_weight = variant.weight
             /\ stubs[n].metadata.devtest_selection_logic =
                   IF snippet # Nil /\ snippet[1] # <<>> THEN snippet ELSE Nil

\* the second <rp> of a transaction has the matchScript, and both stubs of the
\* transaction carry the snippet, the id t1 and the weight 1
C14_Witness ==
    /\ bpc = "mapped"
    /\ Len(doc.transactions) = 1
    /\ Len(doc.transactions[1].rps) = 2
    /\ doc.transactions[1].rps[1].m # Nil
    /\ doc.transactions[1].rps[1].m[1].matchScript = Nil
    /\ doc.transactions[1].rps[1].m[1].weight = Some("abc")
    /\ doc.transactions[1].rps[2].m # Nil
    /\ doc.transactions[1].rps[2].m[1].matchScript = Some(<<" ", "x", "\n">>)
    /\ Len(stubs) = 2
    /\ \A n \in 1..2 : /\ stubs[n].metadata.devtest_selection_logic = Some(<<"x">>)
                       /\ stubs[n].metadata.devtest_transaction_id = "t1"
    /\ stubs[1].metadata.devtest_variant_weight = 1
    /\ stubs[2].metadata.devtest_variant_weight = 1

\* ---- claims on VSIParser.detect_layout
\* the layout markers below a <t>, in document order
MarkersOf(t) ==
    (IF t.data = "first" THEN <<"reqData">> ELSE <<>>)
    \o (IF t.rq # Nil /\ t.rq[1].bd # Nil THEN <<"bd">> ELSE <<>>)
    \o Flatten([r \in 1..Len(t.rps) |-> IF t.rps[r].bd # Nil THEN <<"bd">> ELSE <<>>])
    \o (IF t.data = "last" THEN <<"rspData">> ELSE <<>>)

\* the markers of the document, up to where it stops being well-formed
MarkersRead(d) ==
    Flatten([t \in 1..Len(d.transactions) |->
                IF SeenItem(d, ItemOfTx(d, t)) THEN MarkersOf(d.transactions[t]) ELSE <<>>])

\* C15: detect_layout returns ModelBased if a bd element starts before any
\* reqData or rspData element, RRPairs if a reqData or rspData element starts
\* first, and ModelBased if there is neither; Unknown is never returned and
\* never stays in the layout field of the parser.
C15_LayoutIsFirstMarker ==
    "detect_layout" \in ppc =>
       /\ layout # Nil
       /\ layout[1] # "unknown"
       /\ parser.layout = layout[1]
       /\ layout[1] = IF MarkersRead(doc) = <<>> THEN "model_based"
                      ELSE IF Head(MarkersRead(doc)) = "bd" THEN "model_based"
                      ELSE "rr_pairs"

\* a document whose first marker is a <reqData>, with a <bd> after it, gave
\* RRPairs
C15_Witness ==
    /\ "detect_layout" \in ppc
    /\ ~Malformed(doc)
    /\ MarkersRead(doc) = <<"reqData", "bd">>
    /\ layout = Some("rr_pairs")
    /\ parser.layout = "rr_pairs"

\* C16: the transaction count of the detector equals the number of <t> elements
\* of the document, whichever layout is detected and wherever the first layout
\* marker is.
C16_CountsEveryTransaction ==
    ("detect_layout" \in ppc /\ ~Malformed(doc)) =>
       parser.transactions_count = Len(doc.transactions)

\* C17: a transaction without request block is dropped from the IR and a
\* diagnostic for it is recorded in the warnings of the builder; the build goes
\* on and the other transactions of the file are built.
C17_MissingRequestIsReported ==
    bpc \in {"built", "mapped", "raised"} =>
       LET without == {t \in 1..Len(doc.transactions) : doc.transactions[t].rq = Nil}
       IN /\ Len(builder[1].ir.transactions) = Len(doc.transactions) - Cardinality(without)
          /\ \A t \in without :
                \E n \in 1..Len(builder[1].warnings) :
                   /\ builder[1].warnings[n].msg = "No request found in transaction"
                   /\ builder[1].warnings[n].arg = <<IdOf(doc.transactions[t])>>

\* what the latency and weight values of the documents say: Nil for a value
\* that cannot be parsed
ClaimedLatency(ms) ==
    CASE ms = <<"40", "-", "120">> ->
            Some([mode |-> "range", min_ms |-> 40, max_ms |-> 120, fixed_ms |-> 0])
      [] ms = <<"100">> ->
            Some([mode |-> "fixed", min_ms |-> 0, max_ms |-> 0, fixed_ms |-> 100])
      [] OTHER -> Nil

ClaimedWeight(t) == CASE t = "3" -> Some(3) [] t = "" -> Some(1) [] OTHER -> Nil

\* the <t> elements with a request block whose id no other <t> has
OwnId(d) ==
    {t \in 1..Len(d.transactions) :
        /\ TruthyRq(d.transactions[t].rq)
        /\ \A u \in 1..Len(d.transactions) :
              u # t => IdOf(d.transactions[u]) # IdOf(d.transactions[t])}

HasWarning(list, messages) == \E n \in 1..Len(list) : list[n].msg \in messages

\* C18: a latency value that cannot be parsed gives a variant without latency
\* and a weight that cannot be parsed gives the weight 1.0, each whatever the
\* other is; each defaulting is recorded as a diagnostic, and the variant and
\* the file are built all the same.
C18_LatencyAndWeightDefaulted ==
    bpc \in {"built", "mapped", "raised"} =>
       \A t \in OwnId(doc) :
          LET rps == doc.transactions[t].rps
              variants == builder[1].ir.transactions[IrIndexOf(doc, t)].response_variants
          IN /\ Len(variants) = Len(rps)
             /\ \A r \in 1..Len(rps) :
                   /\ (rps[r].m # Nil /\ rps[r].m[1].latency # Nil) =>
                         /\ variants[r].latency = ClaimedLatency(rps[r].m[1].latency[1])
                         /\ ClaimedLatency(rps[r].m[1].latency[1]) = Nil =>
                               HasWarning(builder[1].warnings,
                                          {"Invalid latency range format",
                                           "Invalid latency fixed format"})
                   /\ (rps[r].m # Nil /\ rps[r].m[1].weight # Nil) =>
                         /\ variants[r].weight =
                               IF ClaimedWeight(rps[r].m[1].weight[1]) = Nil THEN 1
                               ELSE ClaimedWeight(rps[r].m[1].weight[1])[1]
                         /\ ClaimedWeight(rps[r].m[1].weight[1]) = Nil =>
                               HasWarning(builder[1].warnings, {"Invalid weight value"})

\* C19: map_ir_to_stubs leaves the IR as it was: every transaction, request,
\* variant, body and header map has after the call the value it had before, so
\* that mapping the IR again gives the same stubs.
C19_MappingLeavesIRUnchanged ==
    /\ ir = ir0
    /\ mpc = "returned" => map_ir_to_wiremock(ir, soap_match_strategy).stubs = stubs

\* the snippet the <rp> elements of a <t> carry: that of the last matchScript
\* with text
OwnSnippet(t) ==
    LET with == {r \in 1..Len(t.rps) :
                    /\ t.rps[r].m # Nil
                    /\ t.rps[r].m[1].matchScript # Nil
                    /\ t.rps[r].m[1].matchScript[1] # <<>>}
        last == CHOOSE r \in with : \A q \in with : q <= r
    IN IF with = {} THEN Nil ELSE Some(TrimmedOf(t.rps[last].m[1].matchScript[1]))

\* C20: the IR transaction built from a source transaction depends only on the
\* sub-tree of that transaction: its response variants and its selection logic
\* are those found under it, whatever the ids of the other transactions are and
\* whether or not other transactions were dropped.
C20_TransactionsAreIndependent ==
    bpc \in {"built", "mapped", "raised"} =>
       \A t \in 1..Len(doc.transactions) :
          TruthyRq(doc.transactions[t].rq) =>
             LET built == builder[1].ir.transactions[IrIndexOf(doc, t)]
                 rps == doc.transactions[t].rps
             IN /\ Len(built.response_variants) = Len(rps)
                /\ \A r \in 1..Len(rps) :
                      (rps[r].m # Nil /\ rps[r].m[1].weight # Nil
                         /\ ClaimedWeight(rps[r].m[1].weight[1]) # Nil) =>
                            built.response_variants[r].weight =
                                ClaimedWeight(rps[r].m[1].weight[1])[1]
                /\ built.selection_logic = OwnSnippet(doc.transactions[t])

\* a body typed json that json.loads does not accept
InvalidJson(body) ==
    body # Nil /\ body[1].type = "json" /\ ~JsonLoads(body[1].content).ok

\* C21: a body typed json whose content is not valid JSON does not make the
\* mapping fail: map_ir_to_stubs never raises because of it, and once it has
\* returned, the variant with that body and every other variant of the IR has
\* its stub.
C21_InvalidJsonIsEmitted ==
    /\ mpc # "raised"
    /\ mpc = "returned" =>
          \A t \in 1..Len(ir0.transactions) :
             \A v \in 1..Len(ir0.transactions[t].response_variants) :
                (\E t2 \in 1..Len(ir0.transactions) :
                    \E v2 \in 1..Len(ir0.transactions[t2].response_variants) :
                       InvalidJson(ir0.transactions[t2].response_variants[v2].body))
                => StubsOf(stubs, t, v) # {}

C23_RewritesBeforeUnsupportedPass ==
    \A k \in 1..Len(passes) :
       passes[k] = "replace_unsupported_helpers" =>
          {"convert_date_delta", "xpath"} \subseteq {passes[j] : j \in 1..(k - 1)}

\* the date-delta expressions of the texts, plain and entity-encoded
DateSegments == {"date_plain", "date_encoded", "date_plain_semicolon"}

\* C24: a doDateDeltaFromCurrent expression with a format and a signed day
\* offset, plain-quoted or entity-encoded, with or without the semicolon before
\* the closing braces, is rewritten to the now expression with that offset and
\* format and is not added to the unsupported set.
C24_DateDeltaRewritten ==
    (hpc = "body" /\ Len(segs) = 1 /\ segs[1] \in DateSegments) =>
        /\ converted = Some(TargetOf(segs[1]))
        /\ unsupported_helpers = {}

\* C25: after detect_unsupported_helpers or a convert_..._body / convert_headers
\* call the unsupported set of the HelperConverter is exactly the set of the
\* unsupported expressions of the text passed since the last clear; it is empty
\* right after clear_unsupported_helpers; a supported expression is never in it.
C25_UnsupportedSetIsExact ==
    /\ hpc = "clear" => unsupported_helpers = {}
    /\ (hpc \in {"detect", "body"} /\ text # <<>>) =>
          unsupported_helpers =
             {Segment(segs[n]) : n \in {k \in 1..Len(segs) : segs[k] \in UnsupportedSegments}}
    /\ \A n \in 1..Len(segs) :
          segs[n] \in RecognizedSegments => Segment(segs[n]) \notin unsupported_helpers

\* the <method> text of a request block, Nil when the source supplies none
ExplicitMethod(rq) ==
    IF rq.m # Nil /\ rq.m[1].method # Nil /\ rq.m[1].method[1] # ""
    THEN rq.m[1].method ELSE Nil

\* C26: the SOAP inference changes the method only when the source supplied
\* none: a request with an explicit method tag keeps that method, also an
\* explicit GET on a SOAP body, and a method the source did not supply is GET
\* or, by the override, POST.
C26_ExplicitMethodIsKept ==
    bpc \in {"built", "mapped"} =>
       \A t \in 1..Len(doc.transactions) :
          TruthyRq(doc.transactions[t].rq) =>
             LET rq == doc.transactions[t].rq[1]
                 request == builder[1].ir.transactions[IrIndexOf(doc, t)].request
             IN IF ExplicitMethod(rq) # Nil
                THEN request.method = ExplicitMethod(rq)[1]
                ELSE request.method \in {"GET", "POST"}

\* a text with each expression converted on its own and the literal pieces kept
ConvertedOneByOne(names) ==
    Flatten([n \in 1..Len(names) |->
                IF names[n] \in LiteralSegments THEN Segment(names[n])
                ELSE convert_helpers(Segment(names[n]))])

\* C27: convert_helpers rewrites each {{=...}} expression independently and
\* keeps the text outside the expressions: the result is the text with each
\* expression replaced by what convert_helpers returns for that expression
\* alone.
C27_ExpressionsConvertedIndependently ==
    hpc = "returned" => converted = Some(ConvertedOneByOne(segs))

\* the <t> elements of d that contain an <rq> element, in source order
WithRq(d) ==
    LET Has(t) == t.rq # Nil IN SelectSeq(d.transactions, Has)

\* C28: every source transaction with an <rq> element yields exactly one
\* transaction of the IR, in source order; only a transaction without any <rq>
\* element is dropped, not one whose <rq> has no child elements.
C28_EveryRequestYieldsATransaction ==
    bpc \in {"built", "mapped"} =>
       LET built == builder[1].ir.transactions
           source == WithRq(doc)
       IN /\ Len(built) = Len(source)
          /\ \A k \in 1..Len(built) : built[k].id = IdOf(source[k])

\* ---- claims on repeated calls on one VSIParser
\* C29: calling parse, detect_layout or is_http_protocol again on the same
\* parser and file gives the same layout, the same transaction count and the
\* same warnings list as the call before: the count does not grow and no
\* warning is added a second time.
C29_RepeatedDetectionIsIdempotent ==
    [][ppc' = ppc =>
          /\ layout' = layout
          /\ parse_result' = parse_result
          /\ parser'.layout = parser.layout
          /\ parser'.transactions_count = parser.transactions_count
          /\ parser'.warnings = parser.warnings]_vars

\* a latency of the IR is well-formed
WellFormedLatency(latency) ==
    latency # Nil =>
       \/ latency[1].mode = "fixed" /\ latency[1].fixed_ms >= 0
       \/ latency[1].mode = "range" /\ 0 <= latency[1].min_ms
                                    /\ latency[1].min_ms <= latency[1].max_ms

\* C30: every latency parse_latency gives to the IR is well-formed, a Fixed one
\* with ms >= 0 and a Range one with 0 <= min_ms <= max_ms, and so is every
\* delay the mapper emits: lower <= upper in a delayDistribution, and no
\* negative fixedDelayMilliseconds.
C30_LatencyIsWellFormed ==
    /\ bpc \in {"built", "mapped"} =>
          \A t \in 1..Len(builder[1].ir.transactions) :
             \A v \in 1..Len(builder[1].ir.transactions[t].response_variants) :
                WellFormedLatency(builder[1].ir.transactions[t].response_variants[v].latency)
    /\ bpc = "mapped" =>
          \A n \in 1..Len(stubs) :
             LET response == stubs[n].response
             IN /\ response.delayDistribution # Nil =>
                      response.delayDistribution[1].lower <= response.delayDistribution[1].upper
                /\ response.fixedDelayMilliseconds # Nil =>
                      response.fixedDelayMilliseconds[1] >= 0

====
